---- MODULE Spec2Model ----
(***************************************************************************)
(* The diagram-text store of easy-mermaid (src/src/store/editorStore.ts):  *)
(* the text buffer, its undo/redo history, the selection, and the          *)
(* operations that rewrite the buffer.                                     *)
(*                                                                         *)
(* A JavaScript string is a tuple of one-character strings, so that the    *)
(* regular expressions of the source are matched character by character.  *)
(* A character outside ASCII is written "uXXXX" (its code point); such a   *)
(* character is neither a word character nor white space.  An index into   *)
(* a string is 1-based, and 0 stands for "not found" (-1 in the source);   *)
(* line indexes (lineIndex, lineStart, lineEnd) stay 0-based as in the     *)
(* source.                                                                 *)
(***************************************************************************)
EXTENDS Integers, Sequences, FiniteSets, TLC

VARIABLES code, history, historyIndex, selectedNode, selectedEdge,
          selectedSubgraph, nodeStyles, subgraphStyles, trail, steps,
          commits, idsInUse, returned, error, debounce, inFlight, innerHTML

vars == <<code, history, historyIndex, selectedNode, selectedEdge,
          selectedSubgraph, nodeStyles, subgraphStyles, trail, steps,
          commits, idsInUse, returned, error, debounce, inFlight, innerHTML>>

(***************************************************************************)
(* Bounds of the model.                                                    *)
(***************************************************************************)
\* operations performed from the initial state in Spec
MaxSteps == 2
\* operations performed after the distinct commits in SpecHist
MaxHistSteps == 2
\* distinct texts committed in a row in SpecHist
MaxCommits == 52

(***************************************************************************)
(* Characters and the string functions of JavaScript used by the store.    *)
(***************************************************************************)
UpperSeq == <<"A", "B", "C", "D", "E", "F", "G", "H", "I", "J", "K", "L", "M", "N", "O", "P", "Q", "R", "S", "T", "U", "V", "W", "X", "Y", "Z">>
LowerSeq == <<"a", "b", "c", "d", "e", "f", "g", "h", "i", "j", "k", "l", "m", "n", "o", "p", "q", "r", "s", "t", "u", "v", "w", "x", "y", "z">>
DigitSeq == <<"0", "1", "2", "3", "4", "5", "6", "7", "8", "9">>

Range(f) == {f[i] : i \in DOMAIN f}

Upper == Range(UpperSeq)
Lower == Range(LowerSeq)
Digit == Range(DigitSeq)

\* \w
WordChar == Upper \cup Lower \cup Digit \cup {"_"}

\* \s
Space == {" ", "\n", "\t"}

NL == "\n"

Min(S) == CHOOSE x \in S : \A y \in S : x <= y

Max(S) == CHOOSE x \in S : \A y \in S : x >= y

toLowerChar(c) ==
  IF c \in Upper THEN LowerSeq[CHOOSE i \in 1..26 : UpperSeq[i] = c] ELSE c

toLowerCase(s) == [i \in 1..Len(s) |-> toLowerChar(s[i])]

toUpperChar(c) ==
  IF c \in Lower THEN UpperSeq[CHOOSE i \in 1..26 : LowerSeq[i] = c] ELSE c

toUpperCase(s) == [i \in 1..Len(s) |-> toUpperChar(s[i])]

\* the first index >= i of s whose character is not in class C (Len(s)+1 if none)
RunEnd(s, i, C) ==
  IF i > Len(s) THEN i
  ELSE Min({j \in i..(Len(s) + 1) : j = Len(s) + 1 \/ s[j] \notin C})

\* the literal lit occurs in s at index i
StartsWithAt(s, i, lit) ==
  /\ i >= 1
  /\ i + Len(lit) - 1 <= Len(s)
  /\ SubSeq(s, i, i + Len(lit) - 1) = lit

startsWith(s, lit) == StartsWithAt(s, 1, lit)

\* s.indexOf(lit, from): the first index >= from where lit occurs, 0 if none
indexOf(s, lit, from) ==
  IF {j \in from..(Len(s) - Len(lit) + 1) : StartsWithAt(s, j, lit)} = {} THEN 0
  ELSE Min({j \in from..(Len(s) - Len(lit) + 1) : StartsWithAt(s, j, lit)})

includes(s, lit) == indexOf(s, lit, 1) # 0

slice(s, from, to) == SubSeq(s, from, to - 1)

Tail2(s, from) == SubSeq(s, from, Len(s))

\* the last index <= i of s whose character is not in \s (0 if none)
TrimEndIdx(s, i) ==
  IF i < 1 THEN i ELSE Max({j \in 0..i : j = 0 \/ s[j] \notin Space})

trim(s) == SubSeq(s, RunEnd(s, 1, Space), TrimEndIdx(s, Len(s)))

trimStart(s) == Tail2(s, RunEnd(s, 1, Space))

\* s.split(sep) for a one-character separator
\* the k-th index of the set P in increasing order: 0 for k = 0, beyond
\* after the last
NthOf(P, k, beyond) ==
  IF k = 0 THEN 0
  ELSE IF k > Cardinality(P) THEN beyond
  ELSE CHOOSE p \in P : Cardinality({q \in P : q <= p}) = k

\* the parts of s between the indexes P of the separators
splitAt(s, P) ==
  [k \in 1..(Cardinality(P) + 1) |->
     SubSeq(s, NthOf(P, k - 1, 0) + 1, NthOf(P, k, Len(s) + 1) - 1)]

splitOn(s, sep) ==
  CHOOSE parts \in {splitAt(s, P) : P \in {{j \in 1..Len(s) : s[j] = sep}}} : TRUE

split(s) == splitOn(s, NL)

\* parts.join(sep)
RECURSIVE joinWith(_, _)
joinWith(parts, sep) ==
  IF parts = <<>> THEN <<>>
  ELSE IF Len(parts) = 1 THEN parts[1]
  ELSE joinWith(SubSeq(parts, 1, Len(parts) \div 2), sep) \o sep
       \o joinWith(SubSeq(parts, (Len(parts) \div 2) + 1, Len(parts)), sep)

join(lines) == joinWith(lines, <<NL>>)

\* lines.splice(at, del, ...ins) with a 0-based index at <= Len(lines)
splice(lines, at, del, ins) ==
  SubSeq(lines, 1, at) \o ins \o SubSeq(lines, at + del + 1, Len(lines))

RECURSIVE Flatten(_)
Flatten(ss) ==
  IF ss = <<>> THEN <<>>
  ELSE IF Len(ss) = 1 THEN ss[1]
  ELSE Flatten(SubSeq(ss, 1, Len(ss) \div 2))
       \o Flatten(SubSeq(ss, (Len(ss) \div 2) + 1, Len(ss)))

\* the decimal digits of n
RECURSIVE Num(_)
Num(n) ==
  IF n < 10 THEN <<DigitSeq[n + 1]>>
  ELSE Num(n \div 10) \o <<DigitSeq[(n % 10) + 1]>>

\* the word boundary \b holds in s before index i
WordBoundary(s, i) ==
  LET before == i > 1 /\ i - 1 <= Len(s) /\ s[i - 1] \in WordChar
      after == i >= 1 /\ i <= Len(s) /\ s[i] \in WordChar
  IN  before # after

\* the reserved words the scanners skip
Keywords ==
  { <<"f", "l", "o", "w", "c", "h", "a", "r", "t">>, <<"g", "r", "a", "p", "h">>, <<"s", "u", "b", "g", "r", "a", "p", "h">>, <<"e", "n", "d">>, <<"s", "t", "y", "l", "e">>,
    <<"c", "l", "a", "s", "s", "D", "e", "f">>, <<"c", "l", "a", "s", "s">> }

\* Keywords.includes(id.toLowerCase())
IsKeyword(id) == toLowerCase(id) \in Keywords

(***************************************************************************)
(* The store: its constants, its state and the History Manager.            *)
(***************************************************************************)
DEFAULT_CODE ==
  <<"f", "l", "o", "w", "c", "h", "a", "r", "t", " ", "L", "R", "\n", " ", " ", " ", " ", "A", "[", "u5F00", "u59CB", "]", " ", "-", "-", ">", " ", "B", "{", "u5224", "u65AD", "}", "\n", " ", " ", " ", " ", "B", " ", "-", "-", ">", "|", "u662F", "|", " ", "C", "[", "u5904", "u7406", "]", "\n", " ", " ", " ", " ", "B", " ", "-", "-", ">", "|", "u5426", "|", " ", "D", "[", "u7ED3", "u675F", "]", "\n", " ", " ", " ", " ", "C", " ", "-", "-", ">", " ", "D">>

MAX_HISTORY == 50

\* null, and a value that is not null
Null == {}

Some(v) == {v}

ValueOf(o) == CHOOSE v \in o : TRUE

\* {}: a record of styles without a key
NoStyles == [id \in {} |-> {}]

\* the state of the store as one record (get())
Store ==
  [ code |-> code, history |-> history, historyIndex |-> historyIndex,
    selectedNode |-> selectedNode, selectedEdge |-> selectedEdge,
    selectedSubgraph |-> selectedSubgraph, nodeStyles |-> nodeStyles,
    subgraphStyles |-> subgraphStyles ]

\* the state created by create(): history holds the initial text only
InitialStore ==
  [ code |-> DEFAULT_CODE, history |-> <<DEFAULT_CODE>>, historyIndex |-> 0,
    selectedNode |-> Null, selectedEdge |-> Null, selectedSubgraph |-> Null,
    nodeStyles |-> NoStyles, subgraphStyles |-> NoStyles ]

\* pushHistory without the limit: nothing is evicted
pushHistoryUnbounded(s, text) ==
  Append(SubSeq(s.history, 1, s.historyIndex + 1), text)

\* history.slice(0, historyIndex + 1), push(text), shift() beyond MAX_HISTORY
pushHistory(s, text) ==
  LET pushed == Append(SubSeq(s.history, 1, s.historyIndex + 1), text)
  IN  IF Len(pushed) > MAX_HISTORY THEN Tail(pushed) ELSE pushed

\* setCode without slice(0, historyIndex + 1): the snapshots after the cursor
\* are kept and the cursor moves one step
setCodeKeepsRedo(s, text, skipHistory) ==
  IF skipHistory \/ text = s.code
  THEN [s EXCEPT !.code = text]
  ELSE LET pushed == Append(s.history, text)
           newHistory == IF Len(pushed) > MAX_HISTORY THEN Tail(pushed)
                         ELSE pushed
       IN  [s EXCEPT !.code = text,
                     !.history = newHistory,
                     !.historyIndex = IF s.historyIndex + 1 < Len(newHistory)
                                      THEN s.historyIndex + 1
                                      ELSE Len(newHistory) - 1]

setCode(s, text, skipHistory) ==
  IF skipHistory \/ text = s.code
  THEN [s EXCEPT !.code = text]
  ELSE LET newHistory == pushHistory(s, text)
       IN  [s EXCEPT !.code = text,
                     !.history = newHistory,
                     !.historyIndex = Len(newHistory) - 1]

setSelectedNode(s, nodeId) ==
  [s EXCEPT !.selectedNode = nodeId, !.selectedEdge = Null,
            !.selectedSubgraph = Null]

\* setSelectedEdge that leaves the selected node in place
setSelectedEdgeKeepsNode(s, edge) ==
  [s EXCEPT !.selectedEdge = edge, !.selectedSubgraph = Null]

setSelectedEdge(s, edge) ==
  [s EXCEPT !.selectedEdge = edge, !.selectedNode = Null,
            !.selectedSubgraph = Null]

setSelectedSubgraph(s, subgraph) ==
  [s EXCEPT !.selectedSubgraph = subgraph, !.selectedNode = Null,
            !.selectedEdge = Null]

canUndo(s) == s.historyIndex > 0

canRedo(s) == s.historyIndex < Len(s.history) - 1

\* undo that moves the cursor and leaves the buffer as it is
undoKeepsBuffer(s) ==
  IF canUndo(s) THEN [s EXCEPT !.historyIndex = s.historyIndex - 1] ELSE s

undo(s) ==
  IF s.historyIndex > 0
  THEN LET newIndex == s.historyIndex - 1
       IN  [s EXCEPT !.code = s.history[newIndex + 1],
                     !.historyIndex = newIndex]
  ELSE s

redo(s) ==
  IF s.historyIndex < Len(s.history) - 1
  THEN LET newIndex == s.historyIndex + 1
       IN  [s EXCEPT !.code = s.history[newIndex + 1],
                     !.historyIndex = newIndex]
  ELSE s

(***************************************************************************)
(* Direction and connections.                                              *)
(***************************************************************************)
FlowDirection == { <<"L", "R">>, <<"R", "L">>, <<"T", "B">>, <<"B", "T">> }

ArrowType == { <<"-", "-", ">">>, <<"-", "-", "-", ">">>, <<"-", ".", "-", ">">>, <<"=", "=", ">">> }

\* /flowchart\s+(LR|RL|TB|BT|TD)/i at index i of text: the index after the
\* match, 0 if it does not match there
DirectionMatchEnd(text, i) ==
  LET lower == toLowerCase(text)
      j == RunEnd(text, i + 9, Space)
  IN  IF /\ StartsWithAt(lower, i, <<"f", "l", "o", "w", "c", "h", "a", "r", "t">>)
         /\ j > i + 9
         /\ \E d \in FlowDirection \cup {<<"T", "D">>} :
              StartsWithAt(lower, j, toLowerCase(d))
      THEN j + 2
      ELSE 0

\* the index of the first match of the header pattern in text, 0 if none
DirectionMatchStart(text) ==
  LET found == {i \in 1..Len(text) : DirectionMatchEnd(text, i) # 0}
  IN  IF found = {} THEN 0 ELSE Min(found)

getDirection(s) ==
  LET i == DirectionMatchStart(s.code)
  IN  IF i = 0 THEN <<"L", "R">>
      ELSE toUpperCase(SubSeq(s.code, DirectionMatchEnd(s.code, i) - 2,
                              DirectionMatchEnd(s.code, i) - 1))

changeDirection(s, direction) ==
  LET i == DirectionMatchStart(s.code)
      newCode ==
        IF i = 0 THEN s.code
        ELSE SubSeq(s.code, 1, i - 1) \o <<"f", "l", "o", "w", "c", "h", "a", "r", "t", " ">> \o direction
               \o Tail2(s.code, DirectionMatchEnd(s.code, i))
  IN  [s EXCEPT !.code = newCode]

\* the 0-based index after the last line that is not blank (lines.length if
\* every line is blank)
AfterLastNonBlank(lines) ==
  LET nonBlank == {i \in 1..Len(lines) : trim(lines[i]) # <<>>}
  IN  IF nonBlank = {} THEN Len(lines) ELSE Max(nonBlank)

\* label = <<>> stands for a label that is undefined or empty
addConnection(s, from, to, label, arrowType) ==
  LET lines == split(s.code)
      labelPart == IF label # <<>> THEN <<"|">> \o label \o <<"|">> ELSE <<>>
      newLine == <<" ", " ", " ", " ">> \o from \o <<" ">> \o arrowType \o labelPart
                   \o <<" ">> \o to
      insertIndex == AfterLastNonBlank(lines)
  IN  [s EXCEPT !.code = join(splice(lines, insertIndex, 0, <<newLine>>))]

\* deleteEdge with <= in the test of the upper bound of the index
deleteEdgeOffByOne(s, edge) ==
  LET lines == split(s.code)
  IN  IF edge.lineIndex >= 0 /\ edge.lineIndex <= Len(lines)
      THEN LET newCode == join(splice(lines, edge.lineIndex, 1, <<>>))
               newHistory == pushHistory(s, newCode)
           IN  [s EXCEPT !.code = newCode,
                         !.selectedEdge = Null,
                         !.history = newHistory,
                         !.historyIndex = Len(newHistory) - 1]
      ELSE s

deleteEdge(s, edge) ==
  LET lines == split(s.code)
  IN  IF edge.lineIndex >= 0 /\ edge.lineIndex < Len(lines)
      THEN LET newCode == join(splice(lines, edge.lineIndex, 1, <<>>))
               newHistory == pushHistory(s, newCode)
           IN  [s EXCEPT !.code = newCode,
                         !.selectedEdge = Null,
                         !.history = newHistory,
                         !.historyIndex = Len(newHistory) - 1]
      ELSE s

(***************************************************************************)
(* deleteNode.                                                             *)
(***************************************************************************)
\* [[({<]        the first character of an opening bracket in defPattern
DefOpen1 == {"[", "(", "{", "<"}

\* [[({}]        its optional second character
DefOpen2 == {"[", "(", "{", "}"}

\* [\])}>]       a character of the closing bracket in defPattern
DefClose == {"]", ")", "}", ">"}

\* the first index >= i of s whose character is in class C (Len(s)+1 if none)
FindIn(s, i, C) ==
  IF i > Len(s) THEN i
  ELSE Min({j \in i..(Len(s) + 1) : j = Len(s) + 1 \/ s[j] \in C})

\* defPattern /(\w+)([[({<][[({}]?)(.*?)([\])}>][\])}>]?)/ matched at index p
\* of line: [next |-> index after the match, 0 if there is no match at p]
DefMatchAt(line, p) ==
  LET idEnd == RunEnd(line, p, WordChar)
      hasOpen == idEnd > p /\ idEnd <= Len(line) /\ line[idEnd] \in DefOpen1
      two == hasOpen /\ idEnd + 1 <= Len(line) /\ line[idEnd + 1] \in DefOpen2
      \* the lazy label stops at the first closing character
      closeTwo == FindIn(line, idEnd + 2, DefClose)
      closeOne == FindIn(line, idEnd + 1, DefClose)
      close == IF two /\ closeTwo <= Len(line) THEN closeTwo ELSE closeOne
      next == IF close + 1 <= Len(line) /\ line[close + 1] \in DefClose
              THEN close + 2 ELSE close + 1
  IN  IF hasOpen /\ close <= Len(line)
      THEN [next |-> next, nid |-> SubSeq(line, p, idEnd - 1),
            definition |-> SubSeq(line, p, next - 1)]
      ELSE [next |-> 0, nid |-> <<>>, definition |-> <<>>]

\* the matches of the global defPattern in line from index from, in order
RECURSIVE ScanDefsIn(_, _, _)
\* starts: the indexes of line where defPattern matches; the next match is
\* the one at the first of them that is not before from
ScanDefsIn(line, from, starts) ==
  IF {p \in starts : p >= from} = {} THEN <<>>
  ELSE CHOOSE found \in
         {<<m>> \o ScanDefsIn(line, m.next, starts) :
            m \in {DefMatchAt(line, Min({p \in starts : p >= from}))}} : TRUE

ScanDefs(line, from) ==
  CHOOSE found \in
    {ScanDefsIn(line, from, starts) :
       starts \in {{p \in 1..Len(line) : DefMatchAt(line, p).next # 0}}} : TRUE

\* nodeDefinitions, as the list of [nid, lineIndex, definition] in the order
\* they are found; reserved words are skipped
\* the definitions found on the line with index i
lineDefinitions(found, i) ==
  [k \in 1..Len(found) |->
     [nid |-> found[k].nid, lineIndex |-> i, definition |-> found[k].definition]]

nodeDefinitions(lines, i) ==
  Flatten([k \in 1..(Len(lines) - i) |->
             lineDefinitions(SelectSeq(ScanDefs(lines[i + k], 1),
                                       LAMBDA m : ~IsKeyword(m.nid)),
                             i + k - 1)])

\* nodeDefinitions.get(nid)
DefsOf(defs, nid) == SelectSeq(defs, LAMBDA d : d.nid = nid)

\* the dot of a regular expression: any character but a line terminator
ANY == "ANY"

\* the alternative alt (literal characters and dots) matches in text at a
AltMatchesAt(text, a, alt) ==
  /\ a >= 1
  /\ a + Len(alt) - 1 <= Len(text)
  /\ \A k \in 1..Len(alt) :
       IF alt[k] = ANY THEN text[a + k - 1] # NL ELSE text[a + k - 1] = alt[k]

\* the text matched at index a by the first alternative of alts that matches
\* there, <<>> if none does
FirstAltAt(text, a, alts) ==
  LET hits == {k \in 1..Len(alts) : AltMatchesAt(text, a, alts[k])}
  IN  IF hits = {} THEN <<>>
      ELSE SubSeq(text, a, a + Len(alts[Min(hits)]) - 1)

\* (-->|---->|-.->|-.--->|==>|=====>): the dot is not escaped in the source
ArrowAlternatives ==
  << <<"-", "-", ">">>, <<"-", "-", "-", "-", ">">>, <<"-", ANY, "-", ">">>,
     <<"-", ANY, "-", "-", "-", ">">>, <<"=", "=", ">">>, <<"=", "=", "=", "=", "=", ">">> >>

\* ArrowAt with the dots of the alternatives escaped: a dot matches a dot
ArrowAtEscaped(line, a) ==
  FirstAltAt(line, a,
             << <<"-", "-", ">">>, <<"-", "-", "-", "-", ">">>, <<"-", ".", "-", ">">>, <<"-", ".", "-", "-", "-", ">">>, <<"=", "=", ">">>, <<"=", "=", "=", "=", "=", ">">> >>)

ArrowAt(line, a) == FirstAltAt(line, a, ArrowAlternatives)

\* the groups of arrowMatch, given where the indent ends (indentEnd), where
\* the lazy left part ends (e), the arrow and where it starts (a), and the
\* index of the bar that closes the label (0 if there is no label)
ArrowGroups(line, indentEnd, e, a, arrow, bar) ==
  [ok |-> TRUE,
   indent |-> SubSeq(line, 1, indentEnd - 1),
   leftPart |-> SubSeq(line, indentEnd, e - 1),
   arrow |-> arrow,
   label |-> IF bar # 0 THEN SubSeq(line, a + Len(arrow), bar) ELSE <<>>,
   rightPart |-> Tail2(line, RunEnd(line, IF bar # 0 THEN bar + 1
                                          ELSE a + Len(arrow), Space))]

\* (\|[^|]*\|)? after the arrow that starts at a
ArrowLabel(line, indentEnd, e, a, arrow) ==
  ArrowGroups(line, indentEnd, e, a, arrow,
              IF a + Len(arrow) <= Len(line) /\ line[a + Len(arrow)] = "|"
              THEN indexOf(line, <<"|">>, a + Len(arrow) + 1) ELSE 0)

\* \s*(-->|...) after the left part that ends before e
ArrowAfter(line, indentEnd, e, a) ==
  ArrowLabel(line, indentEnd, e, a, ArrowAt(line, a))

\* the lazy left part is the shortest one after which white space and an
\* arrow follow
ArrowFrom(line, indentEnd, ends) ==
  IF ends = {} THEN [ok |-> FALSE]
  ELSE ArrowAfter(line, indentEnd, Min(ends), RunEnd(line, Min(ends), Space))

ArrowEnds(line, indentEnd) ==
  ArrowFrom(line, indentEnd,
            {e \in indentEnd..(Len(line) + 1) :
               ArrowAt(line, RunEnd(line, e, Space)) # <<>>})

\* /^(\s*)(.*?)\s*(-->|---->|-.->|-.--->|==>|=====>)(\|[^|]*\|)?\s*(.*)$/
\* on a line
ArrowMatch(line) == ArrowEnds(line, RunEnd(line, 1, Space))

\* part.split('&').map(n => n.trim()).filter(n => n)
GroupNodes(part) ==
  LET pieces == splitOn(part, "&")
      trimmed == [k \in 1..Len(pieces) |-> trim(pieces[k])]
  IN  SelectSeq(trimmed, LAMBDA n : n # <<>>)

\* new RegExp(`^${nodeId}(?:[\[\(\{/<]|$)`).test(n) || n === nodeId
IsNodeToken(n, nodeId) ==
  \/ /\ startsWith(n, nodeId)
     /\ \/ Len(n) = Len(nodeId)
        \/ n[Len(nodeId) + 1] \in {"[", "(", "{", "/", "<"}
  \/ n = nodeId

\* new RegExp(`\b${nodeId}\b`).test(line)
HasWord(line, nodeId) ==
  \E i \in 1..Len(line) :
    /\ StartsWithAt(line, i, nodeId)
    /\ WordBoundary(line, i)
    /\ WordBoundary(line, i + Len(nodeId))

hasArrow(line) ==
  includes(line, <<"-", "-", ">">>) \/ includes(line, <<"-", ".", "-", ">">>) \/ includes(line, <<"=", "=", ">">>)

\* what checkOrphanedNodes pushes for the definitions own of the id nid
OrphanOwn(nid, own, currentLineIndex, nodeId) ==
  IF nid # nodeId /\ Len(own) = 1 /\ own[1].lineIndex = currentLineIndex
  THEN << <<" ", " ", " ", " ">> \o own[1].definition >>
  ELSE <<>>

\* what checkOrphanedNodes pushes for nodePart, whose id ends before idEnd
OrphanOf(nodePart, idEnd, currentLineIndex, nodeId, defs) ==
  IF idEnd > 1
  THEN OrphanOwn(SubSeq(nodePart, 1, idEnd - 1),
                 DefsOf(defs, SubSeq(nodePart, 1, idEnd - 1)),
                 currentLineIndex, nodeId)
  ELSE <<>>

\* checkOrphanedNodes(nodes, currentLineIndex): the declarations to keep
checkOrphanedNodes(nodes, currentLineIndex, nodeId, defs) ==
  Flatten([k \in 1..Len(nodes) |->
             OrphanOf(nodes[k], RunEnd(nodes[k], 1, WordChar),
                      currentLineIndex, nodeId, defs)])

IsHeaderLine(line) ==
  startsWith(trim(line), <<"f", "l", "o", "w", "c", "h", "a", "r", "t">>) \/ startsWith(trim(line), <<"g", "r", "a", "p", "h">>)

Kept(line) == [out |-> <<line>>, orphans |-> <<>>]

\* what is pushed for a line that matches arrowMatch, given its node lists
\* before and after the filters
FilteredLine(m, leftNodes, rightNodes, newLeftNodes, newRightNodes, i, nodeId, defs) ==
  IF newLeftNodes = <<>> \/ newRightNodes = <<>>
  THEN [out |-> <<>>,
        orphans |->
          (IF Len(newLeftNodes) < Len(leftNodes)
           THEN checkOrphanedNodes(rightNodes, i, nodeId, defs) ELSE <<>>)
          \o (IF Len(newRightNodes) < Len(rightNodes)
              THEN checkOrphanedNodes(leftNodes, i, nodeId, defs) ELSE <<>>)]
  ELSE [out |-> << m.indent \o joinWith(newLeftNodes, <<" ", "&", " ">>) \o <<" ">>
                    \o m.arrow \o m.label \o <<" ">>
                    \o joinWith(newRightNodes, <<" ", "&", " ">>) >>,
        orphans |-> <<>>]

\* leftNodes and rightNodes filtered: removedLeft is what newLeftNodes
\* leaves out of leftNodes
GroupedLine(m, leftNodes, rightNodes, i, nodeId, defs) ==
  FilteredLine(m, leftNodes, rightNodes,
               SelectSeq(leftNodes, LAMBDA n : ~IsNodeToken(n, nodeId)),
               SelectSeq(rightNodes, LAMBDA n : ~IsNodeToken(n, nodeId)),
               i, nodeId, defs)

\* a line with an arrow that has nodeId as a word, given its arrowMatch
ArrowLine(line, m, i, nodeId, defs) ==
  IF m.ok
  THEN GroupedLine(m, GroupNodes(m.leftPart), GroupNodes(m.rightPart),
                   i, nodeId, defs)
  ELSE Kept(line)

\* one iteration of the loop over the lines: what is pushed to
\* processedLines and to orphanedDefinitions for the line with index i
deleteNodeLine(line, trimmed, i, nodeId, defs) ==
  IF IsHeaderLine(line) THEN Kept(line)
  ELSE IF startsWith(trimmed, <<"s", "u", "b", "g", "r", "a", "p", "h">>) \/ trimmed = <<"e", "n", "d">>
  THEN Kept(line)
  ELSE IF \/ startsWith(trimmed, <<"s", "t", "y", "l", "e", " ">> \o nodeId \o <<" ">>)
          \/ trimmed = <<"s", "t", "y", "l", "e", " ">> \o nodeId
  THEN [out |-> <<>>, orphans |-> <<>>]
  ELSE IF HasWord(line, nodeId) /\ hasArrow(line)
  THEN ArrowLine(line, ArrowMatch(line), i, nodeId, defs)
  ELSE Kept(line)

\* InsertOrphans that pushes the orphaned definitions at the end
InsertOrphansAtEnd(processedLines, orphanedDefinitions, headers) ==
  IF orphanedDefinitions # <<>> /\ headers # {}
  THEN processedLines \o orphanedDefinitions
  ELSE processedLines

\* the orphaned definitions spliced in after the header line, if there is one
InsertOrphans(processedLines, orphanedDefinitions, headers) ==
  IF orphanedDefinitions # <<>> /\ headers # {}
  THEN splice(processedLines, Min(headers), 0, orphanedDefinitions)
  ELSE processedLines

FindHeader(processedLines, orphanedDefinitions) ==
  InsertOrphans(processedLines, orphanedDefinitions,
                {k \in 1..Len(processedLines) : IsHeaderLine(processedLines[k])})

\* processedLines and orphanedDefinitions after the loop over the lines
ProcessedLines(results) ==
  FindHeader(Flatten([i \in 1..Len(results) |-> results[i].out]),
             Flatten([i \in 1..Len(results) |-> results[i].orphans]))

deleteNodeLines(lines, nodeId, defs) ==
  ProcessedLines([i \in 1..Len(lines) |->
                    deleteNodeLine(lines[i], trim(lines[i]), i - 1, nodeId, defs)])

\* the text deleteNode computes from the text code (newCode)
deleteNodeText(text, nodeId) ==
  join(deleteNodeLines(split(text), nodeId, nodeDefinitions(split(text), 0)))

\* newCode pushed on the history
deleteNodeSet(s, newCode, newHistory) ==
  [s EXCEPT !.code = newCode,
            !.selectedNode = Null,
            !.history = newHistory,
            !.historyIndex = Len(newHistory) - 1]

deleteNodePush(s, newCode) == deleteNodeSet(s, newCode, pushHistory(s, newCode))

deleteNode(s, nodeId) == deleteNodePush(s, deleteNodeText(s.code, nodeId))

(***************************************************************************)
(* The node scanners and updateNodeLabel.                                  *)
(***************************************************************************)
\* the alternatives of the opening bracket in nodeStartPattern, in order
OpenAlternatives ==
  << <<"[", "[">>, <<"(", "[">>, <<"[", "(">>, <<"(", "(">>, <<"{", "{">>, <<"[", "/">>, <<"[", "\\">>,
     <<">">>, <<"[">>, <<"(">>, <<"{">> >>

\* bracketPairs[open], <<>> when open is not a key
bracketPairs(open) ==
  CASE open = <<"[">> -> <<"]">>
    [] open = <<"(">> -> <<")">>
    [] open = <<"{">> -> <<"}">>
    [] open = <<"(", "[">> -> <<"]", ")">>
    [] open = <<"[", "(">> -> <<")", "]">>
    [] open = <<"(", "(">> -> <<")", ")">>
    [] open = <<"{", "{">> -> <<"}", "}">>
    [] open = <<"[", "/">> -> <<"/", "]">>
    [] open = <<"[", "\\">> -> <<"\\", "]">>
    [] open = <<">">> -> <<"]">>
    [] OTHER -> <<>>

\* /^[A-Za-z]\w*$/.test(id) and id is not a reserved word
IsNodeId(id) ==
  /\ id # <<>>
  /\ id[1] \in Upper \cup Lower
  /\ \A k \in 1..Len(id) : id[k] \in WordChar
  /\ ~IsKeyword(id)

\* the three patterns of extractNodeIds matched at index p of text:
\*   1  /(\w+)[[({<]/      2  /--[>-].*?(\w+)/      3  /(\w+)\s*--/
\* [next |-> index after the match, 0 if there is no match at p, id |-> $1]
IdMatchAt(kind, text, p) ==
  LET idEnd == RunEnd(text, p, WordChar)
      dashes == RunEnd(text, idEnd, Space)
      \* .*? runs to the first word character of the line
      word == FindIn(text, p + 3, WordChar \cup {NL})
      wordEnd == RunEnd(text, word, WordChar)
      None == [next |-> 0, id |-> <<>>]
  IN  CASE kind = 1 ->
             IF idEnd > p /\ idEnd <= Len(text) /\ text[idEnd] \in DefOpen1
             THEN [next |-> idEnd + 1, id |-> SubSeq(text, p, idEnd - 1)]
             ELSE None
        [] kind = 2 ->
             IF /\ StartsWithAt(text, p, <<"-", "-">>)
                /\ p + 2 <= Len(text) /\ text[p + 2] \in {">", "-"}
                /\ word <= Len(text) /\ text[word] # NL
             THEN [next |-> wordEnd, id |-> SubSeq(text, word, wordEnd - 1)]
             ELSE None
        [] kind = 3 ->
             IF idEnd > p /\ StartsWithAt(text, dashes, <<"-", "-">>)
             THEN [next |-> dashes + 2, id |-> SubSeq(text, p, idEnd - 1)]
             ELSE None

\* ids.add(id) for every id of the list found, in order: a Set keeps the
\* insertion order and ignores an id it already holds
\* ids and the elements of found with the indexes first, in their order
AddedAt(ids, found, first) ==
  ids \o [n \in 1..Cardinality(first) |-> found[NthOf(first, n, 0)]]

AddAll(ids, found) ==
  CHOOSE all \in
    {AddedAt(ids, found, first) :
       first \in {{k \in 1..Len(found) :
                     /\ \A j \in 1..Len(ids) : ids[j] # found[k]
                     /\ \A j \in 1..(k - 1) : found[j] # found[k]}}} : TRUE

\* the while loop of one global pattern over text, from index from: the
\* captured ids that pass the test, in the order of the matches
RECURSIVE ScanIdsIn(_, _, _, _)
\* the id of the match m if it passes the test, and the ids of the matches
\* after m
ScanIdsFound(kind, text, starts, m) ==
  (IF IsNodeId(m.id) THEN <<m.id>> ELSE <<>>)
    \o ScanIdsIn(kind, text, m.next, starts)

\* starts: the indexes of text where the pattern matches; the next match is
\* the one at the first of them that is not before from
ScanIdsIn(kind, text, from, starts) ==
  IF {p \in starts : p >= from} = {} THEN <<>>
  ELSE CHOOSE ids \in
         {ScanIdsFound(kind, text, starts, m) :
            m \in {IdMatchAt(kind, text, Min({p \in starts : p >= from}))}} : TRUE

ScanIds(kind, text, from) ==
  CHOOSE ids \in
    {ScanIdsIn(kind, text, from, starts) :
       starts \in {{p \in 1..Len(text) : IdMatchAt(kind, text, p).next # 0}}} : TRUE

extractNodeIds(text) ==
  AddAll(<<>>, ScanIds(1, text, 1) \o ScanIds(2, text, 1) \o ScanIds(3, text, 1))

\* the first alternative after a run of word characters starting at p
NodeStartAt(text, p) ==
  LET idEnd == RunEnd(text, p, WordChar)
      open == FirstAltAt(text, idEnd, OpenAlternatives)
  IN  IF idEnd > p /\ open # <<>>
      THEN [next |-> idEnd + Len(open), id |-> SubSeq(text, p, idEnd - 1),
            openBracket |-> open]
      ELSE [next |-> 0, id |-> <<>>, openBracket |-> <<>>]

\* the while loop of extractNodesWithLabels without the test of seen: the
\* id, label and opening bracket of every match that has a closing bracket
RECURSIVE ScanNodeStartsIn(_, _, _)
\* the node of the match m if it has a closing bracket at closePos and its
\* id passes the test, and the nodes of the matches after m
ScanNodeStartsFound(text, starts, m, closeBracket, closePos) ==
  (IF closeBracket = <<>> \/ ~IsNodeId(m.id) \/ closePos = 0 THEN <<>>
   ELSE <<[id |-> m.id, label |-> slice(text, m.next, closePos),
           openBracket |-> m.openBracket]>>)
    \o ScanNodeStartsIn(text, m.next, starts)

\* starts: the indexes of text where nodeStartPattern matches; the next
\* match is the one at the first of them that is not before from
ScanNodeStartsIn(text, from, starts) ==
  IF {p \in starts : p >= from} = {} THEN <<>>
  ELSE CHOOSE nodes \in
         {ScanNodeStartsFound(text, starts, m, bracketPairs(m.openBracket),
                              indexOf(text, bracketPairs(m.openBracket), m.next)) :
            m \in {NodeStartAt(text, Min({p \in starts : p >= from}))}} : TRUE

ScanNodeStarts(text, from) ==
  CHOOSE nodes \in
    {ScanNodeStartsIn(text, from, starts) :
       starts \in {{p \in 1..Len(text) : NodeStartAt(text, p).next # 0}}} : TRUE

\* seen: only the first match of an id is kept
FirstOfEachId(nodes, found) ==
  CHOOSE all \in
    {AddedAt(nodes, found, first) :
       first \in {{k \in 1..Len(found) :
                     /\ \A j \in 1..Len(nodes) : nodes[j].id # found[k].id
                     /\ \A j \in 1..(k - 1) : found[j].id # found[k].id}}} : TRUE

\* the nodes pushed by the while loop, each with the opening bracket of its
\* declaration
DeclaredNodes(text) == FirstOfEachId(<<>>, ScanNodeStarts(text, 1))

extractNodesWithLabels(text) ==
  LET declared == DeclaredNodes(text)
      allIds == extractNodeIds(text)
      undeclared == SelectSeq(allIds,
                      LAMBDA id : ~\E k \in 1..Len(declared) : declared[k].id = id)
  IN  [k \in 1..Len(declared) |->
         [id |-> declared[k].id, label |-> declared[k].label]]
      \o [k \in 1..Len(undeclared) |->
            [id |-> undeclared[k], label |-> undeclared[k]]]

getNodesWithLabels(s) == extractNodesWithLabels(s.code)

getAllNodeIds(s) == extractNodeIds(s.code)

\* [\[\(\{/<]    the class of the opening bracket in nodePattern
PatOpen == {"[", "(", "{", "/", "<"}

\* [^\]\)\}>]    the label is made of characters outside this set
PatLabelStop == {"]", ")", "}", ">"}

\* [\]\)\}/>]    the class of the closing bracket in nodePattern
PatClose == {"]", ")", "}", "/", ">"}

\* new RegExp(`(${nodeId})([\[\(\{/<]+)([^\]\)\}>]+)([\]\)\}/>]+)`) matched
\* at index p of line.  The quantifiers are greedy: the longest opening run
\* for which a label and a closing bracket follow, then the longest label.
NodePatternAt(line, nodeId, p) ==
  LET o == p + Len(nodeId)
      openMax == RunEnd(line, o, PatOpen) - o
      \* the indexes where the closing bracket may start after an opening
      \* run of length a
      CloseStarts(a) ==
        {e \in (o + a + 1)..FindIn(line, o + a, PatLabelStop) :
           e <= Len(line) /\ line[e] \in PatClose}
      opens == {a \in 1..openMax : CloseStarts(a) # {}}
  IN  IF StartsWithAt(line, p, nodeId) /\ opens # {}
      THEN LET a == Max(opens)
               e == Max(CloseStarts(a))
               closeEnd == RunEnd(line, e, PatClose)
           IN  [ok |-> TRUE, index |-> p, next |-> closeEnd,
                openBracket |-> SubSeq(line, o, o + a - 1),
                label |-> SubSeq(line, o + a, e - 1),
                closeBracket |-> SubSeq(line, e, closeEnd - 1)]
      ELSE [ok |-> FALSE]

\* line.match(nodePattern): the leftmost match
NodePatternFrom(line, nodeId, p) ==
  IF {q \in p..Len(line) : NodePatternAt(line, nodeId, q).ok} = {}
  THEN [ok |-> FALSE]
  ELSE NodePatternAt(line, nodeId,
                     Min({q \in p..Len(line) : NodePatternAt(line, nodeId, q).ok}))

matchNodePattern(line, nodeId) == NodePatternFrom(line, nodeId, 1)

\* the 1-based index of the first line that matches nodePattern, 0 if none
FirstNodePatternLine(lines, nodeId) ==
  LET hits == {i \in 1..Len(lines) : matchNodePattern(lines[i], nodeId).ok}
  IN  IF hits = {} THEN 0 ELSE Min(hits)

updateNodeLabelText(text, nodeId, newLabel) ==
  LET lines == split(text)
      i == FirstNodePatternLine(lines, nodeId)
      m == matchNodePattern(lines[i], nodeId)
      newLine == SubSeq(lines[i], 1, m.index - 1) \o nodeId \o m.openBracket
                   \o newLabel \o m.closeBracket \o Tail2(lines[i], m.next)
  IN  IF i = 0 THEN join(lines)
      ELSE join([lines EXCEPT ![i] = newLine])

updateNodeLabel(s, nodeId, newLabel) ==
  [s EXCEPT !.code = updateNodeLabelText(s.code, nodeId, newLabel)]

(***************************************************************************)
(* Subgraphs.                                                              *)
(***************************************************************************)
\* trimmed.match(/^subgraph\s+(\w+)(?:\s*\[([^\]]*)\])?/)
SubgraphMatch(trimmed) ==
  LET idStart == RunEnd(trimmed, 9, Space)
      idEnd == RunEnd(trimmed, idStart, WordChar)
      open == RunEnd(trimmed, idEnd, Space)
      close == IF open <= Len(trimmed) /\ trimmed[open] = "["
               THEN indexOf(trimmed, <<"]">>, open + 1) ELSE 0
      id == SubSeq(trimmed, idStart, idEnd - 1)
      title == IF close = 0 THEN <<>> ELSE SubSeq(trimmed, open + 1, close - 1)
  IN  IF startsWith(trimmed, <<"s", "u", "b", "g", "r", "a", "p", "h">>) /\ idStart > 9 /\ idEnd > idStart
      THEN [ok |-> TRUE, id |-> id, title |-> title]
      ELSE [ok |-> FALSE]

\* (?:[[({<]|(?:\s*-->|\s*-.->|\s*==>)) : what may follow a node id
MemberArrows == << <<"-", "-", ">">>, <<"-", ANY, "-", ">">>, <<"=", "=", ">">> >>

\* /\b([A-Za-z]\w*)(?:[[({<]|(?:\s*-->|\s*-.->|\s*==>))/ at index p
MemberMatchAt(trimmed, p) ==
  LET idEnd == RunEnd(trimmed, p, WordChar)
      arrow == RunEnd(trimmed, idEnd, Space)
  IN  IF /\ p <= Len(trimmed)
         /\ trimmed[p] \in Upper \cup Lower
         /\ WordBoundary(trimmed, p)
         /\ idEnd <= Len(trimmed)
      THEN IF trimmed[idEnd] \in DefOpen1
           THEN [next |-> idEnd + 1, id |-> SubSeq(trimmed, p, idEnd - 1)]
           ELSE IF FirstAltAt(trimmed, arrow, MemberArrows) # <<>>
           THEN [next |-> arrow + Len(FirstAltAt(trimmed, arrow, MemberArrows)),
                 id |-> SubSeq(trimmed, p, idEnd - 1)]
           ELSE [next |-> 0, id |-> <<>>]
      ELSE [next |-> 0, id |-> <<>>]

\* the while loop of the member pattern over a trimmed line: the ids matched
RECURSIVE ScanMembersIn(_, _, _)
\* starts: the indexes of trimmed where the member pattern matches; the next
\* match is the one at the first of them that is not before from
ScanMembersIn(trimmed, from, starts) ==
  IF {p \in starts : p >= from} = {} THEN <<>>
  ELSE CHOOSE found \in
         {<<m.id>> \o ScanMembersIn(trimmed, m.next, starts) :
            m \in {MemberMatchAt(trimmed, Min({p \in starts : p >= from}))}} : TRUE

ScanMembers(trimmed, from) ==
  CHOOSE found \in
    {ScanMembersIn(trimmed, from, starts) :
       starts \in {{p \in 1..Len(trimmed) : MemberMatchAt(trimmed, p).next # 0}}} : TRUE

\* /^\s*(\w+)\s*$/ on a trimmed line
IsStandalone(trimmed) ==
  trimmed # <<>> /\ \A k \in 1..Len(trimmed) : trimmed[k] \in WordChar

\* LineMembers without standalonePattern: a line that holds an id alone adds
\* no member
LineMembersWithoutStandalone(trimmed, nodes) ==
  AddAll(nodes, SelectSeq(ScanMembers(trimmed, 1), LAMBDA id : ~IsKeyword(id)))

\* the members a line adds to nodes: an id is pushed unless it is a reserved
\* word or already a member
LineMembers(trimmed, nodes) ==
  LET found == ScanMembers(trimmed, 1)
               \o (IF IsStandalone(trimmed) THEN <<trimmed>> ELSE <<>>)
  IN  AddAll(nodes, SelectSeq(found, LAMBDA id : ~IsKeyword(id)))

\* the loop of parseSubgraphs from the line with index i: stack is the stack
\* of open frames (top last), subgraphs the result so far
RECURSIVE ScanSubgraphs(_, _, _, _)
ScanSubgraphs(lines, i, stack, subgraphs) ==
  IF i >= Len(lines) THEN subgraphs
  ELSE LET trimmed == trim(lines[i + 1])
           m == SubgraphMatch(trimmed)
           top == stack[Len(stack)]
       IN  IF m.ok
           THEN ScanSubgraphs(lines, i + 1,
                  Append(stack, [id |-> m.id,
                                 title |-> IF m.title = <<>> THEN m.id ELSE m.title,
                                 lineStart |-> i, nodes |-> <<>>]),
                  subgraphs)
           ELSE IF trimmed = <<"e", "n", "d">> /\ stack # <<>>
           THEN ScanSubgraphs(lines, i + 1, SubSeq(stack, 1, Len(stack) - 1),
                  Append(subgraphs, [id |-> top.id, title |-> top.title,
                                     nodes |-> top.nodes,
                                     lineStart |-> top.lineStart, lineEnd |-> i]))
           ELSE IF stack # <<>>
           THEN ScanSubgraphs(lines, i + 1,
                  [stack EXCEPT ![Len(stack)].nodes = LineMembers(trimmed, @)],
                  subgraphs)
           ELSE ScanSubgraphs(lines, i + 1, stack, subgraphs)

parseSubgraphsText(text) == ScanSubgraphs(split(text), 0, <<>>, <<>>)

parseSubgraphs(s) == parseSubgraphsText(s.code)

\* subgraphs.find(s => s.id === subgraphId): its index in the list, 0 if none
FindSubgraph(subgraphs, subgraphId) ==
  LET hits == {k \in 1..Len(subgraphs) : subgraphs[k].id = subgraphId}
  IN  IF hits = {} THEN 0 ELSE Min(hits)

\* line.startsWith('        ') ? line.slice(4) : line
Dedent(line) == IF startsWith(line, <<" ", " ", " ", " ", " ", " ", " ", " ">>) THEN Tail2(line, 5) ELSE line

deleteSubgraph(s, subgraphId) ==
  LET subgraphs == parseSubgraphs(s)
      k == FindSubgraph(subgraphs, subgraphId)
      subgraph == subgraphs[k]
      lines == split(s.code)
      contentLines == [j \in 1..(subgraph.lineEnd - subgraph.lineStart - 1) |->
                         Dedent(lines[subgraph.lineStart + 1 + j])]
      newLines == SubSeq(lines, 1, subgraph.lineStart) \o contentLines
                    \o SubSeq(lines, subgraph.lineEnd + 2, Len(lines))
  IN  IF k = 0 THEN s
      ELSE [setCode(s, join(newLines), FALSE) EXCEPT !.selectedSubgraph = Null]

(***************************************************************************)
(* generateNextId.  now stands for the value of Date.now(), as a string of *)
(* digits.                                                                 *)
(***************************************************************************)
\* the number of ids made of a letter and a number from 1 to 99
Combos == 26 * 99

\* `${letter}${j}`: the n-th combination (from 0) in the order of the loops
Combo(n) == <<UpperSeq[(n \div 99) + 1]>> \o Num((n % 99) + 1)

\* new Set(existingIds.map(id => id.charAt(0).toUpperCase()))
usedLetters(existingIds) ==
  {IF existingIds[k] = <<>> THEN "" ELSE toUpperChar(existingIds[k][1]) :
     k \in 1..Len(existingIds)}

\* the second pair of loops and the last return, given the combinations
\* that are not in existingIds
nextCombo(free, now) ==
  IF free # {} THEN Combo(Min(free)) ELSE <<"N">> \o now

\* the first loop, given the indexes of the letters that pass its test
nextLetter(ids, letters, now) ==
  IF letters # {} THEN <<UpperSeq[Min(letters)]>>
  ELSE nextCombo({n \in 0..(Combos - 1) : Combo(n) \notin ids}, now)

nextIdAmong(ids, used, now) ==
  nextLetter(ids, {i \in 1..26 : UpperSeq[i] \notin used /\ <<UpperSeq[i]>> \notin ids},
             now)

\* generateNextId without toUpperCase(): the first characters are compared
\* as they are written
generateNextIdCaseSensitive(existingIds, now) ==
  nextIdAmong(Range(existingIds),
              {existingIds[k][1] : k \in {j \in 1..Len(existingIds) : existingIds[j] # <<>>}},
              now)

generateNextId(existingIds, now) ==
  nextIdAmong(Range(existingIds), usedLetters(existingIds), now)

\* getNextNodeId
getNextNodeId(s, now) == generateNextId(extractNodeIds(s.code), now)

(***************************************************************************)
(* updateNodeShape.                                                        *)
(***************************************************************************)
NodeShape ==
  {"rect", "round", "stadium", "diamond", "hexagon", "parallelogram", "circle"}

\* shapeWrappers[shape]: the opening and the closing bracket of a shape
shapeWrappers(shape) ==
  CASE shape = "rect" -> << <<"[">>, <<"]">> >>
    [] shape = "round" -> << <<"(">>, <<")">> >>
    [] shape = "stadium" -> << <<"(", "[">>, <<"]", ")">> >>
    [] shape = "diamond" -> << <<"{">>, <<"}">> >>
    [] shape = "hexagon" -> << <<"{", "{">>, <<"}", "}">> >>
    [] shape = "parallelogram" -> << <<"[", "/">>, <<"/", "]">> >>
    [] shape = "circle" -> << <<"(", "(">>, <<")", ")">> >>

\* line.replace(nodePattern, `$1${open}${label}${close}`) for the match m
reshapeLine(line, nodeId, m, wrappers) ==
  SubSeq(line, 1, m.index - 1) \o nodeId \o wrappers[1] \o m.label
    \o wrappers[2] \o Tail2(line, m.next)

\* the loop of updateNodeShape: the first line that matches (1-based index
\* i, 0 if none) is rewritten
reshapeLines(lines, i, nodeId, wrappers) ==
  IF i = 0 THEN lines
  ELSE [lines EXCEPT ![i] = reshapeLine(lines[i], nodeId,
                                        matchNodePattern(lines[i], nodeId),
                                        wrappers)]

updateNodeShapeText(text, nodeId, shape) ==
  join(reshapeLines(split(text), FirstNodePatternLine(split(text), nodeId),
                    nodeId, shapeWrappers(shape)))

updateNodeShape(s, nodeId, shape) ==
  [s EXCEPT !.code = updateNodeShapeText(s.code, nodeId, shape)]

(***************************************************************************)
(* updateEdgeLabel and updateEdgeArrowType.                                *)
(***************************************************************************)
\* the groups of arrowPattern, given the index where each part of the match
\* ends: the match starts at p, from at f, the arrow at a, the label (if
\* bar # 0, it ends with the bar at index bar) at b, and to at t
EdgeGroups(line, p, f, fEnd, a, b, bar, t) ==
  [ok |-> TRUE, index |-> p, next |-> RunEnd(line, t, WordChar),
   indent |-> SubSeq(line, p, f - 1),
   from |-> SubSeq(line, f, fEnd - 1),
   space1 |-> SubSeq(line, fEnd, a - 1),
   arrow |-> SubSeq(line, a, b - 1),
   labelPart |-> IF bar # 0 THEN SubSeq(line, b, bar) ELSE <<>>,
   space2 |-> SubSeq(line, IF bar # 0 THEN bar + 1 ELSE b, t - 1),
   to |-> SubSeq(line, t, RunEnd(line, t, WordChar) - 1)]

\* (\s*)(\w+) after the label: to starts at t
EdgeTo(line, p, f, fEnd, a, b, bar, t) ==
  IF t <= Len(line) /\ line[t] \in WordChar
  THEN EdgeGroups(line, p, f, fEnd, a, b, bar, t)
  ELSE [ok |-> FALSE]

\* (\|[^|]*\|)? after the arrow, which ends before b
EdgeLabel(line, p, f, fEnd, a, b, bar) ==
  EdgeTo(line, p, f, fEnd, a, b, bar,
         RunEnd(line, IF bar # 0 THEN bar + 1 ELSE b, Space))

\* (-->|---->|-.->|-.--->|==>|=====>) at index a
EdgeArrow(line, p, f, fEnd, a, arrow) ==
  IF arrow = <<>> THEN [ok |-> FALSE]
  ELSE EdgeLabel(line, p, f, fEnd, a, a + Len(arrow),
                 IF a + Len(arrow) <= Len(line) /\ line[a + Len(arrow)] = "|"
                 THEN indexOf(line, <<"|">>, a + Len(arrow) + 1) ELSE 0)

\* (\w+)(\s*) from index f: from ends before fEnd
EdgeFrom(line, p, f, fEnd) ==
  IF fEnd = f THEN [ok |-> FALSE]
  ELSE EdgeArrow(line, p, f, fEnd, RunEnd(line, fEnd, Space),
                 ArrowAt(line, RunEnd(line, fEnd, Space)))

\* arrowPattern matched at index p of line
EdgeMatchAt(line, p) ==
  EdgeFrom(line, p, RunEnd(line, p, Space),
           RunEnd(line, RunEnd(line, p, Space), WordChar))

\* line.match(arrowPattern): the leftmost match
EdgeMatchFrom(line, p) ==
  IF {q \in p..Len(line) : EdgeMatchAt(line, q).ok} = {} THEN [ok |-> FALSE]
  ELSE EdgeMatchAt(line, Min({q \in p..Len(line) : EdgeMatchAt(line, q).ok}))

matchArrowPattern(line) == EdgeMatchFrom(line, 1)

\* lines[edge.lineIndex] is a line that is not empty
HasLine(lines, lineIndex) ==
  /\ lineIndex >= 0
  /\ lineIndex < Len(lines)
  /\ lines[lineIndex + 1] # <<>>

\* the line updateEdgeLabel writes for the match m
relabelLine(m, newLabel) ==
  m.indent \o m.from \o m.space1 \o m.arrow
    \o (IF newLabel # <<>> THEN <<"|">> \o newLabel \o <<"|">> ELSE <<>>)
    \o m.space2 \o m.to

updateEdgeLabelLines(lines, lineIndex, m, newLabel) ==
  IF m.ok THEN [lines EXCEPT ![lineIndex + 1] = relabelLine(m, newLabel)]
  ELSE lines

updateEdgeLabelText(lines, lineIndex, newLabel) ==
  IF HasLine(lines, lineIndex)
  THEN join(updateEdgeLabelLines(lines, lineIndex,
                                 matchArrowPattern(lines[lineIndex + 1]),
                                 newLabel))
  ELSE join(lines)

updateEdgeLabel(s, edge, newLabel) ==
  [s EXCEPT !.code = updateEdgeLabelText(split(s.code), edge.lineIndex, newLabel)]

\* the line updateEdgeArrowType writes for the match m
rearrowLine(m, arrowType) ==
  m.indent \o m.from \o m.space1 \o arrowType \o m.labelPart
    \o m.space2 \o m.to

updateEdgeArrowTypeLines(lines, lineIndex, m, arrowType) ==
  IF m.ok THEN [lines EXCEPT ![lineIndex + 1] = rearrowLine(m, arrowType)]
  ELSE lines

updateEdgeArrowTypeText(lines, lineIndex, arrowType) ==
  IF HasLine(lines, lineIndex)
  THEN join(updateEdgeArrowTypeLines(lines, lineIndex,
                                     matchArrowPattern(lines[lineIndex + 1]),
                                     arrowType))
  ELSE join(lines)

updateEdgeArrowType(s, edge, arrowType) ==
  [s EXCEPT !.code =
     updateEdgeArrowTypeText(split(s.code), edge.lineIndex, arrowType)]

(***************************************************************************)
(* duplicateNode and insertNode.                                           *)
(***************************************************************************)
\* the end of the line that holds index p of text: the index of its line
\* terminator, Len(text) + 1 on the last line
LineEnd(text, p) ==
  IF indexOf(text, <<NL>>, p) = 0 THEN Len(text) + 1 ELSE indexOf(text, <<NL>>, p)

\* \s+(.+)$ from index e: group 1 of styleRegex, <<>> if it does not match
StyleProps(text, e, t) ==
  IF {u \in (e + 1)..t : u <= Len(text) /\ text[u] # NL} = {} THEN <<>>
  ELSE slice(text, Max({u \in (e + 1)..t : u <= Len(text) /\ text[u] # NL}),
             LineEnd(text, Max({u \in (e + 1)..t : u <= Len(text) /\ text[u] # NL})))

\* style\s+<id> from index q
StyleId(text, q, r, id) ==
  IF StartsWithAt(text, q, <<"s", "t", "y", "l", "e">>) /\ r > q + 5 /\ StartsWithAt(text, r, id)
  THEN StyleProps(text, r + Len(id), RunEnd(text, r + Len(id), Space))
  ELSE <<>>

\* styleRegex matched at the start p of a line
StyleAt(text, p, q, id) == StyleId(text, q, RunEnd(text, q + 5, Space), id)

\* the first of the indexes ps at which styleRegex matches
StyleFirst(text, ps, id) ==
  IF ps = {} THEN <<>>
  ELSE StyleAt(text, Min(ps), RunEnd(text, Min(ps), Space), id)

\* code.match(styleRegex)[1] for /^\s*style\s+<id>\s+(.+)$/m, <<>> without
\* a match
styleMatch(text, id) ==
  StyleFirst(text,
             {p \in 1..Len(text) :
                /\ p = 1 \/ text[p - 1] = NL
                /\ StyleAt(text, p, RunEnd(text, p, Space), id) # <<>>},
             id)

\* lines.push(`    style ${newNodeId} ${styleMatch[1]}`) if styleMatch
copyStyle(lines, newNodeId, props) ==
  IF props = <<>> THEN lines
  ELSE Append(lines, <<" ", " ", " ", " ", "s", "t", "y", "l", "e", " ">> \o newNodeId \o <<" ">> \o props)

\* 1 + the 0-based index of the last line among the first n that includes
\* id, 0 if none does
AfterLastIncluding(lines, n, id) ==
  IF {k \in 1..n : includes(lines[k], id)} = {} THEN 0
  ELSE Max({k \in 1..n : includes(lines[k], id)})

\* (-->|---->|--->|-.->|-.--->|==>|=====>) of duplicateNode: the dots are
\* not escaped in the source
DuplicateArrows ==
  << <<"-", "-", ">">>, <<"-", "-", "-", "-", ">">>, <<"-", "-", "-", ">">>, <<"-", ANY, "-", ">">>,
     <<"-", ANY, "-", "-", "-", ">">>, <<"=", "=", ">">>, <<"=", "=", "=", "=", "=", ">">> >>

\* \s*(\w+) from index d closes the match
DupTo(line, f, fEnd, a, b, label, t) ==
  IF t <= Len(line) /\ line[t] \in WordChar
  THEN [ok |-> TRUE, from |-> SubSeq(line, f, fEnd - 1),
        arrowType |-> SubSeq(line, a, b - 1), label |-> label,
        to |-> SubSeq(line, t, RunEnd(line, t, WordChar) - 1),
        next |-> RunEnd(line, t, WordChar)]
  ELSE [ok |-> FALSE]

\* (\|([^|]*)\|)? from index c, where the arrow ended before b
DupLabel(line, f, fEnd, a, b, c, bar) ==
  IF bar # 0
  THEN DupTo(line, f, fEnd, a, b, slice(line, c + 1, bar),
             RunEnd(line, bar + 1, Space))
  ELSE DupTo(line, f, fEnd, a, b, <<>>, c)

\* \s* after an arrow that ends before b
DupAfterArrow(line, f, fEnd, a, b, c) ==
  DupLabel(line, f, fEnd, a, b, c,
           IF c <= Len(line) /\ line[c] = "|"
           THEN indexOf(line, <<"|">>, c + 1) ELSE 0)

\* the alternative k of the arrow at index a
DupArrow(line, f, fEnd, a, k) ==
  IF AltMatchesAt(line, a, DuplicateArrows[k])
  THEN DupAfterArrow(line, f, fEnd, a, a + Len(DuplicateArrows[k]),
                     RunEnd(line, a + Len(DuplicateArrows[k]), Space))
  ELSE [ok |-> FALSE]

\* the first alternative of the arrow with which the rest matches
DupFirstArrow(line, f, fEnd, a, ks) ==
  IF ks = {} THEN [ok |-> FALSE] ELSE DupArrow(line, f, fEnd, a, Min(ks))

\* (\w+)\s* from index f
DupFrom(line, f, fEnd, a) ==
  IF fEnd = f THEN [ok |-> FALSE]
  ELSE DupFirstArrow(line, f, fEnd, a,
         {k \in 1..Len(DuplicateArrows) : DupArrow(line, f, fEnd, a, k).ok})

\* arrowPattern of duplicateNode matched at index f of line
DupEdgeAt(line, f) ==
  DupFrom(line, f, RunEnd(line, f, WordChar),
          RunEnd(line, RunEnd(line, f, WordChar), Space))

\* the while loop of lineArrowPattern.exec: every match of the line, each
\* search starting where the match before ended
RECURSIVE DupEdgesFrom(_, _)
DupEdgesFrom(line, p) ==
  IF {q \in p..Len(line) : DupEdgeAt(line, q).ok} = {} THEN <<>>
  ELSE <<DupEdgeAt(line, Min({q \in p..Len(line) : DupEdgeAt(line, q).ok}))>>
       \o DupEdgesFrom(line,
             DupEdgeAt(line, Min({q \in p..Len(line) : DupEdgeAt(line, q).ok})).next)

\* the matches of all lines, in the order of the lines
DupEdges(lines, i) ==
  Flatten([k \in 1..(Len(lines) - i + 1) |-> DupEdgesFrom(lines[i + k - 1], 1)])

inEdges(edges, nodeId) == SelectSeq(edges, LAMBDA e : e.to = nodeId)

outEdges(edges, nodeId) == SelectSeq(edges, LAMBDA e : e.from = nodeId)

labelPart(label) == IF label # <<>> THEN <<"|">> \o label \o <<"|">> ELSE <<>>

\* the lines duplicateNode builds for the new node
newLines(ins, outs, newNodeId, decl) ==
  [k \in 1..Len(ins) |->
     <<" ", " ", " ", " ">> \o ins[k].from \o <<" ">> \o ins[k].arrowType
       \o labelPart(ins[k].label) \o <<" ">> \o newNodeId \o decl]
  \o (IF Len(ins) = 0 THEN << <<" ", " ", " ", " ">> \o newNodeId \o decl >> ELSE <<>>)
  \o [k \in 1..Len(outs) |->
        <<" ", " ", " ", " ">> \o newNodeId \o <<" ">> \o outs[k].arrowType
          \o labelPart(outs[k].label) \o <<" ">> \o outs[k].to]

\* the index at which the new lines are inserted
dupInsertIndex(lines, nodeId) ==
  IF AfterLastIncluding(lines, Len(lines), nodeId) = 0 THEN Len(lines) - 1
  ELSE AfterLastIncluding(lines, Len(lines), nodeId)

\* the text duplicateNode hands to setCode
dupJoin(text, lines, edges, nodeId, newNodeId, decl) ==
  join(copyStyle(splice(lines, dupInsertIndex(lines, nodeId), 0,
                        newLines(inEdges(edges, nodeId), outEdges(edges, nodeId),
                                 newNodeId, decl)),
                 newNodeId, styleMatch(text, nodeId)))

\* the label between startPos and closePos
dupClosed(text, nodeId, newNodeId, openBracket, closeBracket, startPos, closePos) ==
  IF closePos = 0 THEN [ok |-> FALSE, code |-> text]
  ELSE [ok |-> TRUE,
        code |-> dupJoin(text, split(text), DupEdges(split(text), 1), nodeId,
                         newNodeId,
                         openBracket \o slice(text, startPos, closePos)
                           \o closeBracket)]

\* the opening bracket matched after nodeId, which ends before startPos
dupOpened(text, nodeId, newNodeId, openBracket, startPos) ==
  IF bracketPairs(openBracket) = <<>> THEN [ok |-> FALSE, code |-> text]
  ELSE dupClosed(text, nodeId, newNodeId, openBracket, bracketPairs(openBracket),
                 startPos, indexOf(text, bracketPairs(openBracket), startPos))

\* code.match(nodeStartPattern) at the first of the indexes ps
dupMatched(text, nodeId, newNodeId, ps) ==
  IF ps = {} THEN [ok |-> FALSE, code |-> text]
  ELSE dupOpened(text, nodeId, newNodeId,
                 FirstAltAt(text, Min(ps) + Len(nodeId), OpenAlternatives),
                 Min(ps) + Len(nodeId)
                   + Len(FirstAltAt(text, Min(ps) + Len(nodeId), OpenAlternatives)))

\* ok: duplicateNode reaches setCode; text: the text it sets
duplicateNodeText(text, nodeId, newNodeId) ==
  dupMatched(text, nodeId, newNodeId,
             {p \in 1..Len(text) :
                /\ StartsWithAt(text, p, nodeId)
                /\ FirstAltAt(text, p + Len(nodeId), OpenAlternatives) # <<>>})

\* the identifier duplicateNode returns, Null when it returns null
duplicateNodeResult(s, nodeId, now) ==
  IF duplicateNodeText(s.code, nodeId, getNextNodeId(s, now)).ok
  THEN Some(getNextNodeId(s, now)) ELSE Null

duplicateNode(s, nodeId, now) ==
  IF duplicateNodeText(s.code, nodeId, getNextNodeId(s, now)).ok
  THEN setCode(s, duplicateNodeText(s.code, nodeId, getNextNodeId(s, now)).code, FALSE)
  ELSE s

\* the 0-based indexes i with lo <= i < hi of the lines that include id
LinesIncluding(lines, lo, hi, id) ==
  {i \in lo..(hi - 1) : i < Len(lines) /\ includes(lines[i + 1], id)}

\* insertIndex of insertNode when afterNodeId is in the subgraph sg
insertIndexInside(lines, sg, afterNodeId) ==
  IF LinesIncluding(lines, sg.lineStart + 1, sg.lineEnd, afterNodeId) = {}
  THEN sg.lineEnd
  ELSE Max(LinesIncluding(lines, sg.lineStart + 1, sg.lineEnd, afterNodeId)) + 1

\* insertIndex of insertNode when afterNodeId is in no subgraph
insertIndexOutside(lines, afterNodeId) ==
  IF LinesIncluding(lines, 0, Len(lines), afterNodeId) = {} THEN 0 - 1
  ELSE Max(LinesIncluding(lines, 0, Len(lines), afterNodeId)) + 1

\* the index among subgraphs of the first that has afterNodeId in its nodes,
\* 0 if none: targetSubgraph
targetSubgraph(subgraphs, afterNodeId) ==
  IF {k \in 1..Len(subgraphs) : afterNodeId \in Range(subgraphs[k].nodes)} = {}
  THEN 0
  ELSE Min({k \in 1..Len(subgraphs) : afterNodeId \in Range(subgraphs[k].nodes)})

insertIndexOf(lines, subgraphs, k, afterNodeId) ==
  IF k # 0 THEN insertIndexInside(lines, subgraphs[k], afterNodeId)
  ELSE insertIndexOutside(lines, afterNodeId)

\* the text insertNode hands to setCode when insertIndex > 0
insertNodeJoin(text, lines, insertIndex, afterNodeId, newNodeId, newLine) ==
  join(copyStyle(splice(lines, insertIndex, 0, <<newLine>>), newNodeId,
                 styleMatch(text, afterNodeId)))

insertNodeAt(s, insertIndex, afterNodeId, newNodeId, newLine) ==
  IF insertIndex > 0
  THEN setCode(s, insertNodeJoin(s.code, split(s.code), insertIndex, afterNodeId,
                                 newNodeId, newLine),
               FALSE)
  ELSE s

\* `    ${afterNodeId} --> ${newNodeId}${open}${newNodeLabel}${close}`
insertNodeLine(afterNodeId, newNodeId, newNodeLabel, wrappers) ==
  <<" ", " ", " ", " ">> \o afterNodeId \o <<" ", "-", "-", ">", " ">> \o newNodeId \o wrappers[1]
    \o newNodeLabel \o wrappers[2]

\* insertNode that looks for afterNodeId in all lines, in a subgraph or not
insertNodeAnywhere(s, afterNodeId, newNodeId, newNodeLabel, shape) ==
  insertNodeAt(s, insertIndexOutside(split(s.code), afterNodeId),
               afterNodeId, newNodeId,
               insertNodeLine(afterNodeId, newNodeId, newNodeLabel,
                              shapeWrappers(shape)))

insertNode(s, afterNodeId, newNodeId, newNodeLabel, shape) ==
  insertNodeAt(s, insertIndexOf(split(s.code), parseSubgraphs(s),
                                targetSubgraph(parseSubgraphs(s), afterNodeId),
                                afterNodeId),
               afterNodeId, newNodeId,
               insertNodeLine(afterNodeId, newNodeId, newNodeLabel,
                              shapeWrappers(shape)))

(***************************************************************************)
(* handleAddNode of the toolbar.                                           *)
(***************************************************************************)
\* lines.push(`    ${newId}[新节点]`); setCode(lines.join('\n'))
addNodeText(text, newId) ==
  join(Append(split(text), <<" ", " ", " ", " ">> \o newId \o <<"[", "u65B0", "u8282", "u70B9", "]">>))

handleAddNode(s, now) ==
  setCode(s, addNodeText(s.code, getNextNodeId(s, now)), FALSE)

(***************************************************************************)
(* Styles: the style records of the store and the style lines of the text. *)
(***************************************************************************)
\* the style getSubgraphStyle and updateSubgraphStyle use for a subgraph
\* that has none
defaultSubgraphStyle ==
  [fill |-> <<"#", "f", "5", "f", "5", "f", "5">>, stroke |-> <<"#", "3", "3", "3", "3", "3", "3">>, strokeWidth |-> 1,
   color |-> <<"#", "3", "3", "3", "3", "3", "3">>]

defaultNodeStyle ==
  [fill |-> <<"#", "E", "C", "E", "C", "F", "F">>, stroke |-> <<"#", "9", "3", "7", "0", "D", "B">>, strokeWidth |-> 2,
   color |-> <<"#", "3", "3", "3", "3", "3", "3">>, rx |-> 5]

\* { ...style, ...partial }
merged(style, partial) == partial @@ style

getSubgraphStyle(s, subgraphId) ==
  IF subgraphId \in DOMAIN s.subgraphStyles THEN s.subgraphStyles[subgraphId]
  ELSE defaultSubgraphStyle

getNodeStyle(s, nodeId) ==
  IF nodeId \in DOMAIN s.nodeStyles THEN s.nodeStyles[nodeId]
  ELSE defaultNodeStyle

updateNodeStyle(s, nodeId, style) ==
  [s EXCEPT !.nodeStyles =
     (nodeId :> merged(merged(defaultNodeStyle, getNodeStyle(s, nodeId)), style)) @@ @]

\* \s+<id>\s+ after the word style, which ends before index e of line
StyleTestId(line, e, r, id) ==
  /\ r > e
  /\ StartsWithAt(line, r, id)
  /\ RunEnd(line, r + Len(id), Space) > r + Len(id)

\* styleRegex.test(line) for /^\s*style\s+<id>\s+/
styleRegexTest(line, id) ==
  /\ StartsWithAt(line, RunEnd(line, 1, Space), <<"s", "t", "y", "l", "e">>)
  /\ StyleTestId(line, RunEnd(line, 1, Space) + 5,
                 RunEnd(line, RunEnd(line, 1, Space) + 5, Space), id)

\* lines.findIndex(line => styleRegex.test(line)), 0-based, -1 if none
styleLineIndex(lines, id) ==
  IF {j \in 1..Len(lines) : styleRegexTest(lines[j], id)} = {} THEN 0 - 1
  ELSE Min({j \in 1..Len(lines) : styleRegexTest(lines[j], id)}) - 1

\* styleStr of updateSubgraphStyle
styleStr(subgraphId, newStyle) ==
  <<" ", " ", " ", " ", "s", "t", "y", "l", "e", " ">> \o subgraphId \o <<" ", "f", "i", "l", "l", ":">> \o newStyle.fill
    \o <<",", "s", "t", "r", "o", "k", "e", ":">> \o newStyle.stroke
    \o <<",", "s", "t", "r", "o", "k", "e", "-", "w", "i", "d", "t", "h", ":">> \o Num(newStyle.strokeWidth) \o <<"p", "x", ",", "c", "o", "l", "o", "r", ":">>
    \o newStyle.color

\* lines[styleLineIndex] = styleStr, or lines.push(styleStr)
putStyleLine(lines, index, line) ==
  IF index >= 0 THEN [lines EXCEPT ![index + 1] = line] ELSE Append(lines, line)

\* updateSubgraphStyle that does not look for the style line
updateSubgraphStyleAppending(s, subgraphId, style) ==
  setCode([s EXCEPT !.subgraphStyles =
             (subgraphId :> merged(getSubgraphStyle(s, subgraphId), style)) @@ @],
          join(Append(split(s.code),
                      styleStr(subgraphId,
                               merged(getSubgraphStyle(s, subgraphId), style)))),
          FALSE)

updateSubgraphStyle(s, subgraphId, style) ==
  setCode([s EXCEPT !.subgraphStyles =
             (subgraphId :> merged(getSubgraphStyle(s, subgraphId), style)) @@ @],
          join(putStyleLine(split(s.code), styleLineIndex(split(s.code), subgraphId),
                            styleStr(subgraphId,
                                     merged(getSubgraphStyle(s, subgraphId), style)))),
          FALSE)

\* the keys of a style, in the order in which they are written, and the
\* keys whose value is a number
StyleKeys == <<"fill", "stroke", "strokeWidth", "color", "rx">>

NumericKeys == {"strokeWidth", "rx"}

\* the name of the key in a style line
DirectiveKey(key) ==
  CASE key = "fill" -> <<"f", "i", "l", "l">>
    [] key = "stroke" -> <<"s", "t", "r", "o", "k", "e">>
    [] key = "strokeWidth" -> <<"s", "t", "r", "o", "k", "e", "-", "w", "i", "d", "t", "h">>
    [] key = "color" -> <<"c", "o", "l", "o", "r">>
    [] key = "rx" -> <<"r", "x">>

\* the number written by the digits
RECURSIVE ParseNum(_)
ParseNum(digits) ==
  IF digits = <<>> THEN 0
  ELSE 10 * ParseNum(SubSeq(digits, 1, Len(digits) - 1))
       + ((CHOOSE d \in 1..10 : DigitSeq[d] = digits[Len(digits)]) - 1)

\* the text after `key:` in the pair, <<>> if the pair has another key
PairValue(pair, key) ==
  IF startsWith(trim(pair), DirectiveKey(key) \o <<":">>)
  THEN trim(Tail2(trim(pair), Len(DirectiveKey(key)) + 2))
  ELSE <<>>

\* the pairs of props that have the key
PairsWith(pairs, key) == SelectSeq(pairs, LAMBDA pair : PairValue(pair, key) # <<>>)

\* the value of key in the pair: a number without its suffix, or a text
ValueIn(pair, key) ==
  IF key \in NumericKeys
  THEN ParseNum(SubSeq(PairValue(pair, key), 1,
                       RunEnd(PairValue(pair, key), 1, Digit) - 1))
  ELSE PairValue(pair, key)

\* the properties of a style line, from its comma-separated pairs
parseStyleProps(pairs) ==
  [key \in {k \in Range(StyleKeys) : PairsWith(pairs, k) # <<>>} |->
     ValueIn(PairsWith(pairs, key)[1], key)]

\* parseAllStyles(code)[id]: the properties of the style line of id, the
\* empty style if it has none
parseStyleOf(text, id) ==
  IF styleMatch(text, id) = <<>> THEN NoStyles
  ELSE parseStyleProps(splitOn(styleMatch(text, id), ","))

\* key:value as written in a style line
writtenPair(style, key) ==
  DirectiveKey(key) \o <<":">>
    \o (IF key \in NumericKeys
        THEN Num(style[key]) \o (IF key = "strokeWidth" THEN <<"p", "x">> ELSE <<>>)
        ELSE style[key])

\* the properties of style that are set, in the order of StyleKeys
writtenProps(style) ==
  joinWith([n \in 1..Len(SelectSeq(StyleKeys, LAMBDA k : k \in DOMAIN style)) |->
              writtenPair(style, SelectSeq(StyleKeys, LAMBDA k : k \in DOMAIN style)[n])],
           <<",">>)

\* updateStyleInCode(code, nodeId, style): the style line of nodeId is
\* rewritten, or appended if there is none
updateStyleInCode(text, nodeId, style) ==
  join(putStyleLine(split(text), styleLineIndex(split(text), nodeId),
                    <<" ", " ", " ", " ", "s", "t", "y", "l", "e", " ">> \o nodeId \o <<" ">> \o writtenProps(style)))

\* localStyle of the style panel once its effect has run for selectedNode
localStyle(s, nodeId) ==
  merged(merged(defaultNodeStyle, getNodeStyle(s, nodeId)),
         parseStyleOf(s.code, nodeId))

\* handleStyleChange of the style panel for the selected node nodeId
styleChanged(s, nodeId, change) ==
  setCode(updateNodeStyle(s, nodeId, change),
          updateStyleInCode(s.code, nodeId, merged(localStyle(s, nodeId), change)),
          FALSE)

handleStyleChange(s, key, value) ==
  IF s.selectedNode = Null THEN s
  ELSE styleChanged(s, ValueOf(s.selectedNode), key :> value)

(***************************************************************************)
(* insertSubgraph, addNodeToSubgraph and removeNodeFromSubgraph.           *)
(***************************************************************************)
\* lines[i].match(nodePattern) for /^(\s*)(<id>)([\[\(\{/<]+[^\]\)\}>]+
\* [\]\)\}/>]+)/: the match of the node and its brackets after the indent
matchNodeDef(line, nodeId) == NodePatternAt(line, nodeId, RunEnd(line, 1, Space))

\* match[3] of nodePattern
bracketed(m) == m.openBracket \o m.label \o m.closeBracket

\* the 1-based indexes of the lines that match nodePattern
NodeDefLines(lines, nodeId) ==
  {i \in 1..Len(lines) : matchNodeDef(lines[i], nodeId).ok}

\* nodesToMove after the definition of nodeId is looked for in lines: the
\* first line that matches is pushed
withDefinition(lines, nodeId, nodesToMove, found) ==
  IF found = {} THEN nodesToMove
  ELSE Append(nodesToMove,
              <<" ", " ", " ", " ", " ", " ", " ", " ">> \o nodeId
                \o bracketed(matchNodeDef(lines[Min(found)], nodeId)))

\* if (!nodesToMove.find(n => n.includes(nodeId))) nodesToMove.push(...)
withReference(nodeId, nodesToMove) ==
  IF \E n \in 1..Len(nodesToMove) : includes(nodesToMove[n], nodeId)
  THEN nodesToMove
  ELSE Append(nodesToMove, <<" ", " ", " ", " ", " ", " ", " ", " ">> \o nodeId)

\* the loop over nodeIds from the k-th on
RECURSIVE moveNodes(_, _, _, _)
moveNodes(lines, nodeIds, k, nodesToMove) ==
  IF k > Len(nodeIds) THEN nodesToMove
  ELSE moveNodes(lines, nodeIds, k + 1,
                 withReference(nodeIds[k],
                               withDefinition(lines, nodeIds[k], nodesToMove,
                                              NodeDefLines(lines, nodeIds[k]))))

subgraphLines(lines, id, title, nodeIds) ==
  << <<" ", " ", " ", " ", "s", "u", "b", "g", "r", "a", "p", "h", " ">> \o id \o <<" ", "[">> \o title \o <<"]">> >>
    \o moveNodes(lines, nodeIds, 1, <<>>)
    \o << <<" ", " ", " ", " ", "e", "n", "d">> >>

insertSubgraphLines(lines, id, title, nodeIds) ==
  splice(lines, AfterLastNonBlank(lines), 0, subgraphLines(lines, id, title, nodeIds))

\* nodeIds is <<>> when the caller passes none
insertSubgraph(s, id, title, nodeIds) ==
  setCode(s, join(insertSubgraphLines(split(s.code), id, title, nodeIds)), FALSE)

\* i > subgraph.lineStart && i < subgraph.lineEnd for the 0-based index i
InsideSubgraph(subgraph, i) == i > subgraph.lineStart /\ i < subgraph.lineEnd

\* nodeDefIndex: the 0-based index of the first line outside of the
\* subgraph that matches nodePattern, -1 if none
nodeDefIndex(lines, subgraph, nodeId) ==
  IF {i \in NodeDefLines(lines, nodeId) : ~InsideSubgraph(subgraph, i - 1)} = {}
  THEN 0 - 1
  ELSE Min({i \in NodeDefLines(lines, nodeId) : ~InsideSubgraph(subgraph, i - 1)}) - 1

\* nodeDefLine: the definition of the line found, or the id alone
nodeDefLine(lines, index, nodeId) ==
  IF index >= 0
  THEN <<" ", " ", " ", " ", " ", " ", " ", " ">> \o nodeId \o bracketed(matchNodeDef(lines[index + 1], nodeId))
  ELSE <<" ", " ", " ", " ", " ", " ", " ", " ">> \o nodeId

\* fullLine.match(/^<id>[\[\(\{/<]+[^\]\)\}>]+[\]\)\}/>]+$/): opening
\* brackets that end before index b, a label that ends before a closing run
\* that reaches the end of the line
isOnlyNodeDef(fullLine, nodeId) ==
  /\ startsWith(fullLine, nodeId)
  /\ \E b \in (Len(nodeId) + 2)..RunEnd(fullLine, Len(nodeId) + 1, PatOpen) :
       \E e \in (b + 1)..Len(fullLine) :
         /\ e <= FindIn(fullLine, b, PatLabelStop)
         /\ RunEnd(fullLine, e, PatClose) = Len(fullLine) + 1

\* the line with index nodeDefIndex is removed and nodeDefLine is inserted
\* at adjustedInsertIndex
movedInto(lines, index, insertIndex, line) ==
  splice(splice(lines, index, 1, <<>>),
         IF index < insertIndex THEN insertIndex - 1 ELSE insertIndex, 0, <<line>>)

addNodeLines(lines, subgraph, index, line, nodeId) ==
  IF /\ index >= 0
     /\ (index < subgraph.lineStart \/ index > subgraph.lineEnd)
     /\ isOnlyNodeDef(trim(lines[index + 1]), nodeId)
  THEN movedInto(lines, index, subgraph.lineEnd, line)
  ELSE splice(lines, subgraph.lineEnd, 0, <<line>>)

addNodeInto(s, lines, subgraph, index, nodeId) ==
  setCode(s, join(addNodeLines(lines, subgraph, index,
                               nodeDefLine(lines, index, nodeId), nodeId)),
          FALSE)

addNodeFound(s, subgraphs, k, nodeId) ==
  IF k = 0 THEN s
  ELSE addNodeInto(s, split(s.code), subgraphs[k],
                   nodeDefIndex(split(s.code), subgraphs[k], nodeId), nodeId)

addNodeToSubgraph(s, subgraphId, nodeId) ==
  addNodeFound(s, parseSubgraphs(s), FindSubgraph(parseSubgraphs(s), subgraphId),
               nodeId)

\* nodePattern.test(line) for /^\s*<id>(?:[\[\(\{/<]|\s*$)/
memberLineTest(line, nodeId, e) ==
  /\ StartsWithAt(line, RunEnd(line, 1, Space), nodeId)
  /\ \/ e <= Len(line) /\ line[e] \in PatOpen
     \/ RunEnd(line, e, Space) = Len(line) + 1

\* the 0-based indexes of the lines of the subgraph that match nodePattern
MemberLines(lines, subgraph, nodeId) ==
  {i \in (subgraph.lineStart + 1)..(subgraph.lineEnd - 1) :
     memberLineTest(lines[i + 1], nodeId,
                    RunEnd(lines[i + 1], 1, Space) + Len(nodeId))}

\* lines.splice(insertPos, 0, ...): an index beyond the end is the end
spliceWithin(lines, at, line) ==
  splice(lines, IF at > Len(lines) THEN Len(lines) ELSE at, 0, <<line>>)

\* the position after the subgraph as parseSubgraphs gives it
insertPosAfter(newSubgraphs, k, subgraph) ==
  IF k # 0 THEN newSubgraphs[k].lineEnd + 1 ELSE subgraph.lineEnd

\* the line with index i is removed and inserted again at insertPos
removedAndInserted(lines, i, insertPos) ==
  spliceWithin(splice(lines, i, 1, <<>>), insertPos, <<" ", " ", " ", " ">> \o trim(lines[i + 1]))

\* get().parseSubgraphs() after the removal reads the code of the store,
\* which setCode has not yet changed: newSubgraphs are the subgraphs of s
removeNodeLines(s, lines, subgraph, found, subgraphId) ==
  IF found = {} THEN lines
  ELSE removedAndInserted(lines, Min(found),
         insertPosAfter(parseSubgraphs(s),
                        FindSubgraph(parseSubgraphs(s), subgraphId), subgraph))

removeNodeFound(s, subgraphs, k, subgraphId, nodeId) ==
  IF k = 0 THEN s
  ELSE setCode(s,
               join(removeNodeLines(s, split(s.code), subgraphs[k],
                                    MemberLines(split(s.code), subgraphs[k], nodeId),
                                    subgraphId)),
               FALSE)

removeNodeFromSubgraph(s, subgraphId, nodeId) ==
  removeNodeFound(s, parseSubgraphs(s),
                  FindSubgraph(parseSubgraphs(s), subgraphId), subgraphId, nodeId)

(***************************************************************************)
(* updateSubgraphTitle.                                                    *)
(***************************************************************************)
\* line.match(/^(\s*)subgraph\s+(\w+)(?:\s*\[([^\]]*)\])?/) with
\* match[2] === subgraphId
opensSubgraph(line, subgraphId) ==
  \E m \in {SubgraphMatch(SubSeq(line, RunEnd(line, 1, Space), Len(line)))} :
    m.ok /\ m.id = subgraphId

\* `${indent}subgraph ${subgraphId} [${newTitle}]`
retitledLine(line, subgraphId, newTitle) ==
  SubSeq(line, 1, RunEnd(line, 1, Space) - 1) \o <<"s", "u", "b", "g", "r", "a", "p", "h", " ">> \o subgraphId
    \o <<" ", "[">> \o newTitle \o <<"]">>

retitled(s, lines, found, subgraphId, newTitle) ==
  IF found = {} THEN s
  ELSE setCode(s, join([lines EXCEPT ![Min(found)] =
                          retitledLine(lines[Min(found)], subgraphId, newTitle)]),
               FALSE)

updateSubgraphTitle(s, subgraphId, newTitle) ==
  retitled(s, split(s.code),
           {i \in 1..Len(split(s.code)) : opensSubgraph(split(s.code)[i], subgraphId)},
           subgraphId, newTitle)

(***************************************************************************)
(* The inputs of the operations.                                           *)
(***************************************************************************)
\* a chain of two arrows on one line
ChainText == <<"f", "l", "o", "w", "c", "h", "a", "r", "t", " ", "L", "R", "\n", " ", " ", " ", " ", "A", " ", "-", "-", ">", " ", "B", " ", "-", "-", ">", " ", "C">>

\* the group operator &, a declared node and a style directive
GroupText == <<"f", "l", "o", "w", "c", "h", "a", "r", "t", " ", "L", "R", "\n", " ", " ", " ", " ", "A", "[", "a", "]", " ", "&", " ", "B", " ", "-", "-", ">", " ", "C", "\n", " ", " ", " ", " ", "s", "t", "y", "l", "e", " ", "B", " ", "f", "i", "l", "l", ":", "#", "f", "9", "f">>

\* a node whose id ends with the id of another node
SuffixText == <<"f", "l", "o", "w", "c", "h", "a", "r", "t", " ", "L", "R", "\n", " ", " ", " ", " ", "A", "B", "[", "x", "]", " ", "-", "-", ">", " ", "B", "[", "y", "]">>

\* a node declared on two edge lines
TwiceText == <<"f", "l", "o", "w", "c", "h", "a", "r", "t", " ", "L", "R", "\n", " ", " ", " ", " ", "A", "[", "x", "]", " ", "-", "-", ">", " ", "B", "\n", " ", " ", " ", " ", "B", " ", "-", "-", ">", " ", "A", "[", "x", "]">>

\* a group with one member
SubgraphText == <<"f", "l", "o", "w", "c", "h", "a", "r", "t", " ", "L", "R", "\n", " ", " ", " ", " ", "s", "u", "b", "g", "r", "a", "p", "h", " ", "G", " ", "[", "g", "r", "p", "]", "\n", " ", " ", " ", " ", " ", " ", " ", " ", "A", "[", "x", "]", "\n", " ", " ", " ", " ", "e", "n", "d", "\n", " ", " ", " ", " ", "A", " ", "-", "-", ">", " ", "B">>

\* the texts typed into the editor
Texts ==
  {DEFAULT_CODE, ChainText, GroupText, SuffixText, TwiceText, SubgraphText}

\* Z occurs in no text
NodeIds == { <<"A">>, <<"B">>, <<"Z">> }

Labels == { <<>>, <<"o", "k">> }

NewLabels == { <<"n", "e", "w">> }

Edge(lineIndex) ==
  [from |-> <<"A">>, to |-> <<"B">>, label |-> <<>>, arrowType |-> <<"-", "-", ">">>,
   lineIndex |-> lineIndex]

\* edges whose line index is in and out of the range of the texts
EdgeInputs == {Edge(i) : i \in {-1, 0, 1, 4, 5}}

SubgraphG ==
  [id |-> <<"G">>, title |-> <<"g", "r", "p">>, nodes |-> << <<"A">> >>,
   lineStart |-> 1, lineEnd |-> 3]

SubgraphIds == { <<"G">>, <<"H">> }

\* the n-th of the pairwise distinct texts committed in SpecHist
Txt(n) == <<"f", "l", "o", "w", "c", "h", "a", "r", "t", " ", "L", "R", "\n", " ", " ", " ", " ", "A", " ", "-", "-", ">", " ", "N">> \o Num(n)

(***************************************************************************)
(* The specifications.  trail records the last operations performed, each *)
(* with its arguments, the most recent one last.                          *)
(***************************************************************************)
\* the number of operations trail remembers
TrailLen == 3

\* the operation performed k operations ago (0 is the last one), and its
\* arguments; "none" if there is no such operation in trail
Op(k) == IF Len(trail) > k THEN trail[Len(trail) - k].op ELSE "none"

Arg(k) == trail[Len(trail) - k].arg

Init ==
  /\ code = InitialStore.code
  /\ history = InitialStore.history
  /\ historyIndex = InitialStore.historyIndex
  /\ selectedNode = InitialStore.selectedNode
  /\ selectedEdge = InitialStore.selectedEdge
  /\ selectedSubgraph = InitialStore.selectedSubgraph
  /\ nodeStyles = InitialStore.nodeStyles
  /\ subgraphStyles = InitialStore.subgraphStyles
  /\ trail = <<>>
  /\ steps = 0
  /\ commits = 0
  /\ idsInUse = <<>>
  /\ returned = <<>>
  /\ error = Null
  /\ debounce = Some(InitialStore.code)
  /\ inFlight = <<>>
  /\ innerHTML = Null

\* the store becomes s after the operation op called with arg
Committed(op, arg, s) ==
  /\ code' = s.code
  /\ history' = s.history
  /\ historyIndex' = s.historyIndex
  /\ selectedNode' = s.selectedNode
  /\ selectedEdge' = s.selectedEdge
  /\ selectedSubgraph' = s.selectedSubgraph
  /\ nodeStyles' = s.nodeStyles
  /\ subgraphStyles' = s.subgraphStyles
  /\ trail' = LET all == Append(trail, [op |-> op, arg |-> arg])
              IN  IF Len(all) > TrailLen THEN Tail(all) ELSE all
  /\ UNCHANGED <<idsInUse, returned>>

\* an operation on the store alone: the state of the preview is not modelled
\* outside of SpecRender
Becomes(op, arg, s) ==
  /\ Committed(op, arg, s)
  /\ UNCHANGED <<error, debounce, inFlight, innerHTML>>

\* one more operation of the MaxSteps operations of Spec
Counted ==
  /\ steps < MaxSteps
  /\ steps' = steps + 1
  /\ UNCHANGED commits

\* the editor, the templates and the style panel call setCode(text); no
\* caller passes skipHistory
SetCode ==
  /\ Counted
  /\ \E text \in Texts :
       Becomes("setCode", [text |-> text, skipHistory |-> FALSE],
               setCode(Store, text, FALSE))

SetSelectedNode ==
  /\ Counted
  /\ \E nodeId \in {Null, Some(<<"A">>), Some(<<"B">>)} :
       Becomes("setSelectedNode", nodeId, setSelectedNode(Store, nodeId))

SetSelectedEdge ==
  /\ Counted
  /\ \E edge \in {Null, Some(Edge(1))} :
       Becomes("setSelectedEdge", edge, setSelectedEdge(Store, edge))

SetSelectedSubgraph ==
  /\ Counted
  /\ \E subgraph \in {Null, Some(SubgraphG)} :
       Becomes("setSelectedSubgraph", subgraph,
               setSelectedSubgraph(Store, subgraph))

ChangeDirection ==
  /\ Counted
  /\ \E direction \in FlowDirection :
       Becomes("changeDirection", direction, changeDirection(Store, direction))

AddConnection ==
  /\ Counted
  /\ \E label \in Labels, arrowType \in ArrowType :
       Becomes("addConnection",
               [from |-> <<"A">>, to |-> <<"C">>, label |-> label,
                arrowType |-> arrowType],
               addConnection(Store, <<"A">>, <<"C">>, label, arrowType))

DeleteNode ==
  /\ Counted
  /\ \E nodeId \in NodeIds :
       Becomes("deleteNode", nodeId, deleteNode(Store, nodeId))

DeleteEdge ==
  /\ Counted
  /\ \E edge \in EdgeInputs :
       Becomes("deleteEdge", edge, deleteEdge(Store, edge))

Undo ==
  /\ Counted
  /\ Becomes("undo", <<>>, undo(Store))

Redo ==
  /\ Counted
  /\ Becomes("redo", <<>>, redo(Store))

UpdateNodeLabel ==
  /\ Counted
  /\ \E nodeId \in NodeIds, newLabel \in NewLabels :
       Becomes("updateNodeLabel", [nodeId |-> nodeId, newLabel |-> newLabel],
               updateNodeLabel(Store, nodeId, newLabel))

DeleteSubgraph ==
  /\ Counted
  /\ \E subgraphId \in SubgraphIds :
       Becomes("deleteSubgraph", subgraphId, deleteSubgraph(Store, subgraphId))

Next ==
  \/ SetCode
  \/ SetSelectedNode
  \/ SetSelectedEdge
  \/ SetSelectedSubgraph
  \/ ChangeDirection
  \/ AddConnection
  \/ DeleteNode
  \/ DeleteEdge
  \/ Undo
  \/ Redo
  \/ UpdateNodeLabel
  \/ DeleteSubgraph

Spec == Init /\ [][Next]_vars

(***************************************************************************)
(* SpecHist: the history at its capacity.  Pairwise distinct texts are     *)
(* committed one after the other, the history is then rewound by undo, and *)
(* MaxHistSteps further operations follow.                                 *)
(***************************************************************************)
\* only distinct texts have been committed so far
Filling == steps = 0 /\ Op(0) \in {"none", "setCode"}

\* no operation other than the commits and undo has been performed so far
Rewinding == steps = 0

\* one more operation of the MaxHistSteps operations of SpecHist
HistCounted ==
  /\ steps < MaxHistSteps
  /\ steps' = steps + 1

HistCommit ==
  /\ commits < MaxCommits
  /\ IF Filling THEN UNCHANGED steps ELSE HistCounted
  /\ commits' = commits + 1
  /\ Becomes("setCode", [text |-> Txt(commits + 1), skipHistory |-> FALSE],
             setCode(Store, Txt(commits + 1), FALSE))

HistUndo ==
  /\ IF Rewinding /\ canUndo(Store) THEN UNCHANGED steps ELSE HistCounted
  /\ UNCHANGED commits
  /\ Becomes("undo", <<>>, undo(Store))

HistRedo ==
  /\ HistCounted
  /\ UNCHANGED commits
  /\ Becomes("redo", <<>>, redo(Store))

HistDeleteNode ==
  /\ HistCounted
  /\ UNCHANGED commits
  /\ Becomes("deleteNode", <<"Z">>, deleteNode(Store, <<"Z">>))

HistDeleteEdge ==
  /\ HistCounted
  /\ UNCHANGED commits
  /\ Becomes("deleteEdge", Edge(1), deleteEdge(Store, Edge(1)))

NextHist ==
  \/ HistCommit
  \/ HistUndo
  \/ HistRedo
  \/ HistDeleteNode
  \/ HistDeleteEdge

SpecHist == Init /\ [][NextHist]_vars


(***************************************************************************)
(* SpecEdit: the operations that edit nodes and edges, on texts that hold  *)
(* the shapes, labels and arrows they rewrite.                             *)
(***************************************************************************)
\* values of Date.now()
Clock == { <<"1", "7", "0", "0", "0", "0", "0", "0", "0", "0", "0", "0", "0">>, <<"1", "7", "0", "0", "0", "0", "0", "0", "0", "0", "0", "0", "1">> }

\* a node of every shape of NodeShape
ShapesText ==
  <<"f", "l", "o", "w", "c", "h", "a", "r", "t", " ", "L", "R", "\n", " ", " ", " ", " ", "A", "[", "a", "]", " ", "-", "-", ">", " ", "B", "(", "b", ")", "\n", " ", " ", " ", " ", "C", "(", "[", "c", "]", ")", " ", "-", "-", ">", " ", "D", "{", "d", "}", "\n", " ", " ", " ", " ", "E", "{", "{", "e", "}", "}", " ", "-", "-", ">", " ", "F", "[", "/", "f", "/", "]", "\n", " ", " ", " ", " ", "G", "(", "(", "g", ")", ")">>

\* a declared node in the middle of a line that chains two arrows
ChainedText == <<"f", "l", "o", "w", "c", "h", "a", "r", "t", " ", "L", "R", "\n", " ", " ", " ", " ", "B", "[", "b", "]", "\n", " ", " ", " ", " ", "A", " ", "-", "-", ">", " ", "B", " ", "-", "-", ">", " ", "C", "\n", " ", " ", " ", " ", "s", "t", "y", "l", "e", " ", "B", " ", "f", "i", "l", "l", ":", "#", "f", "0", "0">>

\* a declared node with one edge in and one edge out, each on its own line
PlainText == <<"f", "l", "o", "w", "c", "h", "a", "r", "t", " ", "L", "R", "\n", " ", " ", " ", " ", "B", "{", "b", "}", "\n", " ", " ", " ", " ", "A", " ", "=", "=", ">", "|", "x", "|", " ", "B", "\n", " ", " ", " ", " ", "B", " ", "-", "-", ">", " ", "C">>

EditTexts == {DEFAULT_CODE, ShapesText, ChainedText, PlainText}

ShapeIds == { <<"A">>, <<"B">>, <<"C">>, <<"D">>, <<"E">>, <<"F">>, <<"G">> }

EditSetCode ==
  /\ Counted
  /\ \E text \in EditTexts :
       Becomes("setCode", [text |-> text, skipHistory |-> FALSE],
               setCode(Store, text, FALSE))

UpdateNodeShape ==
  /\ Counted
  /\ \E nodeId \in ShapeIds, shape \in NodeShape :
       Becomes("updateNodeShape", [nodeId |-> nodeId, shape |-> shape],
               updateNodeShape(Store, nodeId, shape))

\* edges on lines that hold an arrow, on lines that hold none, and on no line
EdgeLines == {0, 1, 2, 4, 7}

UpdateEdgeLabel ==
  /\ Counted
  /\ \E lineIndex \in EdgeLines, newLabel \in Labels :
       Becomes("updateEdgeLabel", [edge |-> Edge(lineIndex), newLabel |-> newLabel],
               updateEdgeLabel(Store, Edge(lineIndex), newLabel))

UpdateEdgeArrowType ==
  /\ Counted
  /\ \E lineIndex \in EdgeLines, arrowType \in ArrowType :
       Becomes("updateEdgeArrowType",
               [edge |-> Edge(lineIndex), arrowType |-> arrowType],
               updateEdgeArrowType(Store, Edge(lineIndex), arrowType))

DuplicateNode ==
  /\ Counted
  /\ \E nodeId \in ShapeIds, now \in Clock :
       Becomes("duplicateNode",
               [nodeId |-> nodeId, result |-> duplicateNodeResult(Store, nodeId, now)],
               duplicateNode(Store, nodeId, now))

NextEdit ==
  \/ EditSetCode
  \/ DuplicateNode
  \/ UpdateNodeShape
  \/ UpdateEdgeLabel
  \/ UpdateEdgeArrowType

SpecEdit == Init /\ [][NextEdit]_vars

(***************************************************************************)
(* SpecIds: generateNextId applied to lists of ids, the id it returns      *)
(* being added to the list or not before the next call.                    *)
(***************************************************************************)
\* the number of calls of generateNextId
MaxCalls == 2

\* the letters A to Z followed by A1 to A99
BaseIds == [i \in 1..26 |-> <<UpperSeq[i]>>] \o [n \in 1..99 |-> Combo(n - 1)]

\* every letter and every combination of a letter and a number
AllIds == [i \in 1..26 |-> <<UpperSeq[i]>>] \o [n \in 1..Combos |-> Combo(n - 1)]

IdLists ==
  {SubSeq(BaseIds, 1, n) : n \in 0..Len(BaseIds)}
    \cup {<< <<"a">> >>, << <<"b">>, <<"A">> >>, << <<"B", "1">> >>, << <<"s", "t", "a", "r", "t">>, <<"A", "1">> >>,
          [i \in 1..26 |-> <<LowerSeq[i]>>], AllIds}

InitIds ==
  /\ code = InitialStore.code
  /\ history = InitialStore.history
  /\ historyIndex = InitialStore.historyIndex
  /\ selectedNode = InitialStore.selectedNode
  /\ selectedEdge = InitialStore.selectedEdge
  /\ selectedSubgraph = InitialStore.selectedSubgraph
  /\ nodeStyles = InitialStore.nodeStyles
  /\ subgraphStyles = InitialStore.subgraphStyles
  /\ trail = <<>>
  /\ steps = 0
  /\ commits = 0
  /\ idsInUse \in IdLists
  /\ returned = <<>>
  /\ error = Null
  /\ debounce = Some(InitialStore.code)
  /\ inFlight = <<>>
  /\ innerHTML = Null

GenerateNextId ==
  /\ Len(returned) < MaxCalls
  /\ \E now \in Clock, add \in BOOLEAN :
       /\ returned' = Append(returned, generateNextId(idsInUse, now))
       /\ idsInUse' = IF add
                      THEN Append(idsInUse, generateNextId(idsInUse, now))
                      ELSE idsInUse
  /\ UNCHANGED <<code, history, historyIndex, selectedNode, selectedEdge,
                 selectedSubgraph, nodeStyles, subgraphStyles, trail, steps,
                 commits, error, debounce, inFlight, innerHTML>>

NextIds == GenerateNextId

SpecIds == InitIds /\ [][NextIds]_vars

(***************************************************************************)
(* SpecGroup: the operations on subgraphs and the operations that read    *)
(* them, on texts that hold subgraphs.                                     *)
(***************************************************************************)
\* a subgraph that holds a subgraph; the inner one refers to a node of the
\* outer one, which has a style directive
NestedText ==
  <<"f", "l", "o", "w", "c", "h", "a", "r", "t", " ", "L", "R", "\n", " ", " ", " ", " ", "s", "u", "b", "g", "r", "a", "p", "h", " ", "G", " ", "[", "g", "]", "\n", " ", " ", " ", " ", " ", " ", " ", " ", "A", "[", "x", "]", "\n", " ", " ", " ", " ", " ", " ", " ", " ", "s", "u", "b", "g", "r", "a", "p", "h", " ", "H", " ", "[", "h", "]", "\n", " ", " ", " ", " ", " ", " ", " ", " ", " ", " ", " ", " ", "C", " ", "-", "-", ">", " ", "A", "\n", " ", " ", " ", " ", " ", " ", " ", " ", "e", "n", "d", "\n", " ", " ", " ", " ", "e", "n", "d", "\n", " ", " ", " ", " ", "s", "t", "y", "l", "e", " ", "A", " ", "f", "i", "l", "l", ":", "#", "f", "0", "0">>

\* SubgraphText after insertNode('A', 'N', 'n', 'rect'): the inserted line
\* is a line of the subgraph
InsertedText ==
  <<"f", "l", "o", "w", "c", "h", "a", "r", "t", " ", "L", "R", "\n", " ", " ", " ", " ", "s", "u", "b", "g", "r", "a", "p", "h", " ", "G", " ", "[", "g", "r", "p", "]", "\n", " ", " ", " ", " ", " ", " ", " ", " ", "A", "[", "x", "]", "\n", " ", " ", " ", " ", "A", " ", "-", "-", ">", " ", "N", "[", "n", "]", "\n", " ", " ", " ", " ", "e", "n", "d", "\n", " ", " ", " ", " ", "A", " ", "-", "-", ">", " ", "B">>

\* two subgraphs in a row, a node declared on a line of its own and a node
\* declared on the line of an edge
SiblingText ==
  <<"f", "l", "o", "w", "c", "h", "a", "r", "t", " ", "L", "R", "\n", " ", " ", " ", " ", "s", "u", "b", "g", "r", "a", "p", "h", " ", "G", " ", "[", "g", "]", "\n", " ", " ", " ", " ", " ", " ", " ", " ", "A", "[", "x", "]", "\n", " ", " ", " ", " ", "e", "n", "d", "\n", " ", " ", " ", " ", "s", "u", "b", "g", "r", "a", "p", "h", " ", "H", " ", "[", "h", "]", "\n", " ", " ", " ", " ", " ", " ", " ", " ", "B", "[", "y", "]", " ", "-", "-", ">", " ", "A", "\n", " ", " ", " ", " ", "e", "n", "d", "\n", " ", " ", " ", " ", "C", "[", "z", "]">>

GroupTexts == {DEFAULT_CODE, SubgraphText, NestedText, InsertedText, SiblingText}

\* N occurs in no text
NewNodeId == <<"N">>

GroupSetCode ==
  /\ Counted
  /\ \E text \in GroupTexts :
       Becomes("setCode", [text |-> text, skipHistory |-> FALSE],
               setCode(Store, text, FALSE))

\* a shape with a bracket of one character and one with two
InsertShapes == {"rect", "stadium"}

InsertNode ==
  /\ Counted
  /\ \E afterNodeId \in NodeIds \cup { <<"C">> }, shape \in InsertShapes :
       Becomes("insertNode",
               [afterNodeId |-> afterNodeId, newNodeId |-> NewNodeId,
                newNodeLabel |-> <<"n">>, shape |-> shape],
               insertNode(Store, afterNodeId, NewNodeId, <<"n">>, shape))

\* S is the id of no subgraph of the texts
NewSubgraphId == <<"S">>

\* lists of node ids: none, declared and not declared ones, and an id that
\* is part of another
NodeIdLists ==
  { <<>>, << <<"A">> >>, << <<"A">>, <<"Z">> >>, << <<"A", "B">>, <<"B">> >> }

InsertSubgraph ==
  /\ Counted
  /\ \E nodeIds \in NodeIdLists :
       Becomes("insertSubgraph",
               [id |-> NewSubgraphId, title |-> <<"s">>, nodeIds |-> nodeIds],
               insertSubgraph(Store, NewSubgraphId, <<"s">>, nodeIds))

GroupDeleteSubgraph ==
  /\ Counted
  /\ \E subgraphId \in SubgraphIds :
       Becomes("deleteSubgraph", subgraphId, deleteSubgraph(Store, subgraphId))

\* nodes of SiblingText and a node of no text
MemberIds == { <<"A">>, <<"B">>, <<"C">>, <<"Z">> }

AddNodeToSubgraph ==
  /\ Counted
  /\ \E subgraphId \in SubgraphIds, nodeId \in MemberIds :
       Becomes("addNodeToSubgraph",
               [subgraphId |-> subgraphId, nodeId |-> nodeId],
               addNodeToSubgraph(Store, subgraphId, nodeId))

RemoveNodeFromSubgraph ==
  /\ Counted
  /\ \E subgraphId \in SubgraphIds, nodeId \in MemberIds :
       Becomes("removeNodeFromSubgraph",
               [subgraphId |-> subgraphId, nodeId |-> nodeId],
               removeNodeFromSubgraph(Store, subgraphId, nodeId))

NextGroup ==
  \/ GroupSetCode
  \/ AddNodeToSubgraph
  \/ RemoveNodeFromSubgraph
  \/ GroupDeleteSubgraph
  \/ InsertSubgraph

SpecGroup == Init /\ [][NextGroup]_vars

\* SpecInsert: insertNode on the texts that hold subgraphs
NextInsert ==
  \/ GroupSetCode
  \/ InsertNode

SpecInsert == Init /\ [][NextInsert]_vars

(***************************************************************************)
(* SpecStyle: the style updates of the style panel, for a subgraph and for *)
(* the selected node.                                                      *)
(***************************************************************************)
\* the number of operations of SpecStyle
MaxStyleSteps == 3

StyleCounted ==
  /\ steps < MaxStyleSteps
  /\ steps' = steps + 1
  /\ UNCHANGED commits

\* the changes the inputs of the style panel make: one key each
SubgraphChanges ==
  { "fill" :> <<"#", "f", "f", "f">>, "stroke" :> <<"#", "0", "0", "0">>, "strokeWidth" :> 3 }

NodeChanges == { "fill" :> <<"#", "f", "f", "f">>, "stroke" :> <<"#", "0", "0", "0">>, "rx" :> 9 }

StyleSetCode ==
  /\ StyleCounted
  /\ Becomes("setCode", [text |-> SubgraphText, skipHistory |-> FALSE],
             setCode(Store, SubgraphText, FALSE))

StyleSelectNode ==
  /\ StyleCounted
  /\ \E nodeId \in {Null, Some(<<"A">>)} :
       Becomes("setSelectedNode", nodeId, setSelectedNode(Store, nodeId))

UpdateSubgraphStyle ==
  /\ StyleCounted
  /\ \E style \in SubgraphChanges :
       Becomes("updateSubgraphStyle", [subgraphId |-> SubgraphG.id, style |-> style],
               updateSubgraphStyle(Store, SubgraphG.id, style))

HandleStyleChange ==
  /\ StyleCounted
  /\ \E change \in NodeChanges :
       Becomes("handleStyleChange",
               [key |-> CHOOSE k \in DOMAIN change : TRUE,
                value |-> change[CHOOSE k \in DOMAIN change : TRUE]],
               handleStyleChange(Store, CHOOSE k \in DOMAIN change : TRUE,
                                 change[CHOOSE k \in DOMAIN change : TRUE]))

NextStyle ==
  \/ StyleSetCode
  \/ StyleSelectNode
  \/ UpdateSubgraphStyle
  \/ HandleStyleChange

SpecStyle == Init /\ [][NextStyle]_vars
(***************************************************************************)
(* SpecPersist: the store under the persist middleware.  The page is       *)
(* closed and opened again between the operations of the editor.           *)
(***************************************************************************)
\* partialize: the part of the state written to the storage
partialize(s) == [code |-> s.code, nodeStyles |-> s.nodeStyles]

\* the state after create() with a stored part: the stored fields replace
\* those of the initial state, the other fields are the initial ones
rehydrate(persisted) ==
  [InitialStore EXCEPT !.code = persisted.code,
                       !.nodeStyles = persisted.nodeStyles]

\* the number of operations of SpecPersist
MaxPersistSteps == 4

PersistCounted ==
  /\ steps < MaxPersistSteps
  /\ steps' = steps + 1
  /\ UNCHANGED commits

PersistTexts == {DEFAULT_CODE, ChainText, SubgraphText}

PersistSetCode ==
  /\ PersistCounted
  /\ \E text \in PersistTexts :
       Becomes("setCode", [text |-> text, skipHistory |-> FALSE],
               setCode(Store, text, FALSE))

PersistSelectNode ==
  /\ PersistCounted
  /\ \E nodeId \in {Null, Some(<<"A">>)} :
       Becomes("setSelectedNode", nodeId, setSelectedNode(Store, nodeId))

PersistUndo ==
  /\ PersistCounted
  /\ Becomes("undo", <<>>, undo(Store))

PersistRedo ==
  /\ PersistCounted
  /\ Becomes("redo", <<>>, redo(Store))

\* the page is loaded again: the argument is the stored part
Restart ==
  /\ PersistCounted
  /\ Becomes("restart", partialize(Store), rehydrate(partialize(Store)))

NextPersist ==
  \/ PersistSetCode
  \/ PersistSelectNode
  \/ PersistUndo
  \/ PersistRedo
  \/ Restart

SpecPersist == Init /\ [][NextPersist]_vars

(***************************************************************************)
(* SpecRender: the preview (src/src/components/Preview.tsx).  The effect   *)
(* of the preview runs when the text of the store has changed; it renders  *)
(* the text 300 ms later, unless it is cleaned up before.                  *)
(*   error      the state error of the component                           *)
(*   debounce   the text of the pending timer, Null if no timer is pending *)
(*   inFlight   the texts of the calls of renderMermaid that have not      *)
(*              returned, the oldest first                                 *)
(*   innerHTML  the text whose markup is in the container, Null before the *)
(*              first markup                                               *)
(***************************************************************************)
\* a text the renderer rejects: the bracket is not closed
BrokenText == <<"f", "l", "o", "w", "c", "h", "a", "r", "t", " ", "L", "R", "\n", " ", " ", " ", " ", "A", "[">>

RenderTexts == {DEFAULT_CODE, ChainText, BrokenText}

\* renderMermaid(code, id): the markup of the text, or the error thrown by
\* the renderer
renderMermaid(text) ==
  IF text = BrokenText
  THEN [ok |-> FALSE, message |-> <<"P", "a", "r", "s", "e", " ", "e", "r", "r", "o", "r">>]
  ELSE [ok |-> TRUE, svg |-> text]

\* containerRef.current: the container is in the page while no error is
\* shown; the panel of the error takes its place otherwise
containerRef == IF error = Null THEN Some("container") ELSE Null

\* the body of the effect, after the cleanup of the effect before:
\* if (!container) return; setTimeout(render, 300)
scheduled(text) == IF containerRef = Null THEN Null ELSE Some(text)

\* the number of changes of the text in SpecRender
MaxEdits == 3

\* the text of the store changes (or setCode is called with the same text:
\* the effect does not run then); the cleanup clears the pending timer and
\* the effect runs with the new text
Edit ==
  /\ steps < MaxEdits
  /\ steps' = steps + 1
  /\ UNCHANGED commits
  /\ \E text \in RenderTexts :
       /\ Committed("setCode", [text |-> text, skipHistory |-> FALSE],
                    setCode(Store, text, FALSE))
       /\ debounce' = IF text = code THEN debounce ELSE scheduled(text)
       /\ UNCHANGED <<error, inFlight, innerHTML>>

\* the timer fires: render() calls setError(null) and renderMermaid(code)
\* with the text of the effect that set the timer
TimerFires ==
  /\ debounce # Null
  /\ Committed("render", ValueOf(debounce), Store)
  /\ error' = Null
  /\ inFlight' = Append(inFlight, ValueOf(debounce))
  /\ debounce' = Null
  /\ UNCHANGED <<innerHTML, steps, commits>>

\* the oldest call of renderMermaid returns: container.innerHTML = svg, or
\* the catch clause calls setError(message)
RenderReturns ==
  /\ inFlight # <<>>
  /\ Committed("rendered", Head(inFlight), Store)
  /\ inFlight' = Tail(inFlight)
  /\ IF renderMermaid(Head(inFlight)).ok
     THEN /\ innerHTML' = Some(renderMermaid(Head(inFlight)).svg)
          /\ UNCHANGED error
     ELSE /\ error' = Some(renderMermaid(Head(inFlight)).message)
          /\ UNCHANGED innerHTML
  /\ UNCHANGED <<debounce, steps, commits>>

NextRender ==
  \/ Edit
  \/ TimerFires
  \/ RenderReturns

SpecRender == Init /\ [][NextRender]_vars

\* a timer that is not cleared fires, and a call of the renderer returns
SpecRenderFair ==
  SpecRender /\ WF_vars(TimerFires) /\ WF_vars(RenderReturns)

(***************************************************************************)
(* SpecNoop: the operations called with a target that the text holds and   *)
(* with one it does not hold.                                              *)
(***************************************************************************)
\* B is the id of no node, and the end of the id of one
SuffixOnlyText == <<"f", "l", "o", "w", "c", "h", "a", "r", "t", " ", "L", "R", "\n", " ", " ", " ", " ", "A", "B", "[", "x", "]", " ", "-", "-", ">", " ", "C">>

NoopTexts == {DEFAULT_CODE, SubgraphText, SuffixOnlyText}

\* Z occurs in no text
TargetIds == { <<"A">>, <<"B">>, <<"Z">> }

\* a line of every text, and a line of none
TargetLines == {1, 9}

NoopSetCode ==
  /\ Counted
  /\ \E text \in NoopTexts :
       Becomes("setCode", [text |-> text, skipHistory |-> FALSE],
               setCode(Store, text, FALSE))

NoopInsertNode ==
  /\ Counted
  /\ \E afterNodeId \in TargetIds :
       Becomes("insertNode",
               [afterNodeId |-> afterNodeId, newNodeId |-> NewNodeId,
                newNodeLabel |-> <<"n">>, shape |-> "rect"],
               insertNode(Store, afterNodeId, NewNodeId, <<"n">>, "rect"))

NoopUpdateNodeLabel ==
  /\ Counted
  /\ \E nodeId \in TargetIds :
       Becomes("updateNodeLabel", [nodeId |-> nodeId, newLabel |-> <<"n", "e", "w">>],
               updateNodeLabel(Store, nodeId, <<"n", "e", "w">>))

NoopUpdateNodeShape ==
  /\ Counted
  /\ \E nodeId \in TargetIds :
       Becomes("updateNodeShape", [nodeId |-> nodeId, shape |-> "round"],
               updateNodeShape(Store, nodeId, "round"))

NoopUpdateEdgeLabel ==
  /\ Counted
  /\ \E lineIndex \in TargetLines :
       Becomes("updateEdgeLabel", [edge |-> Edge(lineIndex), newLabel |-> <<"o", "k">>],
               updateEdgeLabel(Store, Edge(lineIndex), <<"o", "k">>))

NoopUpdateEdgeArrowType ==
  /\ Counted
  /\ \E lineIndex \in TargetLines :
       Becomes("updateEdgeArrowType",
               [edge |-> Edge(lineIndex), arrowType |-> <<"=", "=", ">">>],
               updateEdgeArrowType(Store, Edge(lineIndex), <<"=", "=", ">">>))

NoopUpdateSubgraphTitle ==
  /\ Counted
  /\ \E subgraphId \in SubgraphIds :
       Becomes("updateSubgraphTitle",
               [subgraphId |-> subgraphId, newTitle |-> <<"t">>],
               updateSubgraphTitle(Store, subgraphId, <<"t">>))

NoopDeleteSubgraph ==
  /\ Counted
  /\ \E subgraphId \in SubgraphIds :
       Becomes("deleteSubgraph", subgraphId, deleteSubgraph(Store, subgraphId))

NoopAddNodeToSubgraph ==
  /\ Counted
  /\ \E subgraphId \in SubgraphIds :
       Becomes("addNodeToSubgraph",
               [subgraphId |-> subgraphId, nodeId |-> <<"B">>],
               addNodeToSubgraph(Store, subgraphId, <<"B">>))

NoopRemoveNodeFromSubgraph ==
  /\ Counted
  /\ \E subgraphId \in SubgraphIds :
       Becomes("removeNodeFromSubgraph",
               [subgraphId |-> subgraphId, nodeId |-> <<"A">>],
               removeNodeFromSubgraph(Store, subgraphId, <<"A">>))

NoopDuplicateNode ==
  /\ Counted
  /\ \E nodeId \in TargetIds, now \in Clock :
       Becomes("duplicateNode",
               [nodeId |-> nodeId, result |-> duplicateNodeResult(Store, nodeId, now)],
               duplicateNode(Store, nodeId, now))

NextNoop ==
  \/ NoopSetCode
  \/ NoopInsertNode
  \/ NoopUpdateNodeLabel
  \/ NoopUpdateNodeShape
  \/ NoopUpdateEdgeLabel
  \/ NoopUpdateEdgeArrowType
  \/ NoopUpdateSubgraphTitle
  \/ NoopDeleteSubgraph
  \/ NoopAddNodeToSubgraph
  \/ NoopRemoveNodeFromSubgraph
  \/ NoopDuplicateNode

SpecNoop == Init /\ [][NextNoop]_vars

(***************************************************************************)
(* SpecScan: parseSubgraphs on texts typed line by line: lines that open a *)
(* subgraph, lines that end one, and lines of nodes, in any order.         *)
(***************************************************************************)
\* the number of lines typed after the initial text
MaxScanLines == 5

ScanLines ==
  { <<" ", " ", " ", " ", "s", "u", "b", "g", "r", "a", "p", "h", " ", "G", " ", "[", "g", "]">>, <<" ", " ", " ", " ", " ", " ", " ", " ", "s", "u", "b", "g", "r", "a", "p", "h", " ", "H">>, <<" ", " ", " ", " ", "e", "n", "d">>, <<" ", " ", " ", " ", " ", " ", " ", " ", "A">> }

\* the user types one more line at the end of the text
TypeLine ==
  /\ steps < MaxScanLines
  /\ steps' = steps + 1
  /\ UNCHANGED commits
  /\ \E line \in ScanLines :
       Becomes("setCode", [text |-> code \o <<NL>> \o line, skipHistory |-> FALSE],
               setCode(Store, code \o <<NL>> \o line, FALSE))

NextScan == TypeLine

SpecScan == Init /\ [][NextScan]_vars

(***************************************************************************)
(* SpecFresh: the operations that take a new id from getNextNodeId, on     *)
(* texts that write an edge with each arrow of ArrowType.                  *)
(***************************************************************************)
\* the number of operations of SpecFresh
MaxFreshSteps == 3

FreshCounted ==
  /\ steps < MaxFreshSteps
  /\ steps' = steps + 1
  /\ UNCHANGED commits

\* the edge from A[a] to B written with arrow
ArrowText(arrow) == <<"f", "l", "o", "w", "c", "h", "a", "r", "t", " ", "L", "R", "\n", " ", " ", " ", " ", "A", "[", "a", "]", " ">> \o arrow \o <<" ", "B">>

\* bare ids on both sides of a thick arrow
BareText == <<"f", "l", "o", "w", "c", "h", "a", "r", "t", " ", "L", "R", "\n", " ", " ", " ", " ", "A", " ", "=", "=", ">", " ", "B">>

FreshTexts == {DEFAULT_CODE, BareText} \cup {ArrowText(arrow) : arrow \in ArrowType}

FreshSetCode ==
  /\ FreshCounted
  /\ \E text \in FreshTexts :
       Becomes("setCode", [text |-> text, skipHistory |-> FALSE],
               setCode(Store, text, FALSE))

\* the add-node button of the toolbar
HandleAddNode ==
  /\ FreshCounted
  /\ \E now \in Clock :
       Becomes("handleAddNode", [result |-> Some(getNextNodeId(Store, now))],
               handleAddNode(Store, now))

FreshDuplicateNode ==
  /\ FreshCounted
  /\ \E nodeId \in { <<"A">>, <<"B">> }, now \in Clock :
       Becomes("duplicateNode",
               [nodeId |-> nodeId, result |-> duplicateNodeResult(Store, nodeId, now)],
               duplicateNode(Store, nodeId, now))

NextFresh ==
  \/ FreshSetCode
  \/ HandleAddNode
  \/ FreshDuplicateNode

SpecFresh == Init /\ [][NextFresh]_vars

(***************************************************************************)
(* SpecDelete: deleteNode on texts with edges, groups, styles, subgraphs   *)
(* and declarations of every shape.                                        *)
(***************************************************************************)
DeleteTexts == Texts \cup {ShapesText, PlainText, SiblingText}

DeleteSetCode ==
  /\ Counted
  /\ \E text \in DeleteTexts :
       Becomes("setCode", [text |-> text, skipHistory |-> FALSE],
               setCode(Store, text, FALSE))

DeleteTheNode ==
  /\ Counted
  /\ \E nodeId \in NodeIds :
       Becomes("deleteNode", nodeId, deleteNode(Store, nodeId))

NextDelete ==
  \/ DeleteSetCode
  \/ DeleteTheNode

SpecDelete == Init /\ [][NextDelete]_vars

(***************************************************************************)
(* SpecUndo: undo and redo after setCode and after operations that edit    *)
(* a node or an edge.                                                      *)
(***************************************************************************)
\* the number of operations of SpecUndo
MaxUndoSteps == 4

UndoCounted ==
  /\ steps < MaxUndoSteps
  /\ steps' = steps + 1
  /\ UNCHANGED commits

UndoTexts == {ChainText, PlainText}

\* the text and the cursor an operation is called with
Called == [code |-> code, historyIndex |-> historyIndex]

UndoSetCode ==
  /\ UndoCounted
  /\ \E text \in UndoTexts :
       Becomes("setCode", [text |-> text, skipHistory |-> FALSE],
               setCode(Store, text, FALSE))

UndoUpdateEdgeLabel ==
  /\ UndoCounted
  /\ Becomes("updateEdgeLabel", [edge |-> Edge(1), newLabel |-> <<"o", "k">>],
             updateEdgeLabel(Store, Edge(1), <<"o", "k">>))

UndoUpdateNodeShape ==
  /\ UndoCounted
  /\ Becomes("updateNodeShape", [nodeId |-> <<"B">>, shape |-> "round"],
             updateNodeShape(Store, <<"B">>, "round"))

UndoStep ==
  /\ UndoCounted
  /\ Becomes("undo", Called, undo(Store))

RedoStep ==
  /\ UndoCounted
  /\ Becomes("redo", Called, redo(Store))

NextUndo ==
  \/ UndoSetCode
  \/ UndoUpdateEdgeLabel
  \/ UndoUpdateNodeShape
  \/ UndoStep
  \/ RedoStep

SpecUndo == Init /\ [][NextUndo]_vars

(***************************************************************************)
(* SpecArrow: the arrow and the label of the edges of the initial text set *)
(* one after the other.                                                    *)
(***************************************************************************)
\* the number of operations of SpecArrow
MaxArrowSteps == 2

ArrowCounted ==
  /\ steps < MaxArrowSteps
  /\ steps' = steps + 1
  /\ UNCHANGED commits

\* a line whose edge starts with a bracket, the line of an edge with a
\* label, the line of an edge without one
ArrowLines == {1, 2, 4}

SetArrowType ==
  /\ ArrowCounted
  /\ \E lineIndex \in ArrowLines, arrowType \in ArrowType :
       Becomes("updateEdgeArrowType",
               [edge |-> Edge(lineIndex), arrowType |-> arrowType],
               updateEdgeArrowType(Store, Edge(lineIndex), arrowType))

SetEdgeLabel ==
  /\ ArrowCounted
  /\ \E lineIndex \in ArrowLines, newLabel \in Labels :
       Becomes("updateEdgeLabel", [edge |-> Edge(lineIndex), newLabel |-> newLabel],
               updateEdgeLabel(Store, Edge(lineIndex), newLabel))

NextArrow ==
  \/ SetArrowType
  \/ SetEdgeLabel

SpecArrow == Init /\ [][NextArrow]_vars


(***************************************************************************)
(* The properties.                                                         *)
(***************************************************************************)
LastOp == Op(0)

LastArg == Arg(0)

Lines(text) == split(text)

\* the snapshot at the cursor
AtCursor == history[historyIndex + 1]

\* C1: history is linear.  When an undo is followed by a commit of a text
\* that differs from the buffer, the snapshots after the cursor are
\* discarded, the text is appended and the cursor is at the tail, so that
\* canRedo is false and redo changes nothing.
C1_LinearHistory ==
  [][ ( /\ LastOp = "undo"
        /\ LastOp' = "setCode"
        /\ ~LastArg'.skipHistory
        /\ LastArg'.text # code )
      => ( /\ history' = Append(SubSeq(history, 1, historyIndex + 1),
                                LastArg'.text)
           /\ historyIndex' = Len(history') - 1
           /\ code' = LastArg'.text
           /\ ~canRedo(Store')
           /\ redo(Store') = Store' ) ]_vars

\* an undo that moved the cursor, a commit that discarded the snapshots
\* after it, and a redo that found nothing to restore
C1_Witness ==
  /\ Op(0) = "redo" /\ Op(1) = "setCode" /\ Op(2) = "undo"
  /\ commits < MAX_HISTORY
  /\ Len(history) < commits
  /\ code = Txt(commits)
  /\ historyIndex = Len(history) - 1

\* the operations of the Mutation Engine
MutationOps ==
  {"changeDirection", "addConnection", "deleteNode", "deleteEdge",
   "updateNodeLabel", "deleteSubgraph"}

\* C2: every operation of the Mutation Engine commits the text it produces
\* through the history: when the buffer is the snapshot at the cursor before
\* the operation, it is the snapshot at the cursor after it.
C2_MutationsCommit ==
  [][ (LastOp' \in MutationOps /\ code = AtCursor) => code' = AtCursor' ]_vars

\* C3: a no-op edit does not grow the history: no two adjacent snapshots
\* are equal.
C3_NoAdjacentEqualSnapshots ==
  \A i \in 1..(Len(history) - 1) : history[i] # history[i + 1]

\* C4: the history holds between 1 and MAX_HISTORY snapshots and the cursor
\* is an index of it; a commit made when the history is full and the cursor
\* at its tail evicts exactly the oldest snapshot and leaves the cursor at
\* the new tail.
C4_HistoryBounded ==
  /\ [](/\ Len(history) >= 1
        /\ Len(history) <= MAX_HISTORY
        /\ historyIndex >= 0
        /\ historyIndex < Len(history))
  /\ [][ ( /\ Len(history) = MAX_HISTORY
           /\ historyIndex = MAX_HISTORY - 1
           /\ history' # history )
         => ( /\ history' = Append(Tail(history), code')
              /\ historyIndex' = MAX_HISTORY - 1 ) ]_vars

\* the initial text has been evicted by the commit of the 50th text
C4_Witness ==
  /\ Op(0) = "setCode"
  /\ commits = MAX_HISTORY
  /\ Len(history) = MAX_HISTORY
  /\ historyIndex = MAX_HISTORY - 1
  /\ history[1] = Txt(1)
  /\ code = Txt(MAX_HISTORY)

\* C5: after more than MAX_HISTORY pairwise distinct commits, undo repeated
\* until canUndo is false leaves the buffer at the oldest retained snapshot,
\* the MAX_HISTORY-th most recently committed text, which is not the initial
\* text; a further undo changes nothing.
C5_UndoReachesOldestRetained ==
  ( /\ steps = 0
    /\ Op(0) = "undo"
    /\ ~canUndo(Store)
    /\ commits > MAX_HISTORY )
  => ( /\ code = Txt(commits - MAX_HISTORY + 1)
       /\ code # DEFAULT_CODE
       /\ code = history[1]
       /\ undo(Store) = Store )

\* 51 commits rewound to the bottom of the history
C5_Witness ==
  /\ steps = 0
  /\ Op(0) = "undo" /\ Op(1) = "undo"
  /\ commits = MAX_HISTORY + 1
  /\ historyIndex = 0
  /\ code = Txt(2)

\* C6: at most one of selectedNode, selectedEdge, selectedSubgraph is not
\* null, and each setter leaves the other two null.
C6_OneSelection ==
  /\ selectedNode = Null \/ selectedEdge = Null
  /\ selectedNode = Null \/ selectedSubgraph = Null
  /\ selectedEdge = Null \/ selectedSubgraph = Null
  /\ LastOp = "setSelectedNode" =>
       selectedNode = LastArg /\ selectedEdge = Null /\ selectedSubgraph = Null
  /\ LastOp = "setSelectedEdge" =>
       selectedEdge = LastArg /\ selectedNode = Null /\ selectedSubgraph = Null
  /\ LastOp = "setSelectedSubgraph" =>
       selectedSubgraph = LastArg /\ selectedNode = Null /\ selectedEdge = Null

\* an edge is selected while a node was selected
C6_Witness ==
  /\ Op(0) = "setSelectedEdge" /\ Op(1) = "setSelectedNode"
  /\ Arg(1) # Null
  /\ selectedEdge # Null
  /\ selectedNode = Null

\* the line is a style directive of nodeId
IsStyleLineOf(line, nodeId) ==
  \/ startsWith(trim(line), <<"s", "t", "y", "l", "e", " ">> \o nodeId \o <<" ">>)
  \/ trim(line) = <<"s", "t", "y", "l", "e", " ">> \o nodeId

\* C7: after deleteNode(id) no style line of id remains and no line with an
\* arrow refers to id as a whole token.
C7_DeletionRemovesReferences ==
  LastOp = "deleteNode" =>
    \A k \in 1..Len(Lines(code)) :
      /\ ~IsStyleLineOf(Lines(code)[k], LastArg)
      /\ ~(hasArrow(Lines(code)[k]) /\ HasWord(Lines(code)[k], LastArg))

\* C8: every node other than id that is declared with a label and a shape
\* before deleteNode(id) is declared with the same label and shape after it.
C8_DeclarationsPreserved ==
  [][ LastOp' = "deleteNode" =>
        \A k \in 1..Len(DeclaredNodes(code)) :
          DeclaredNodes(code)[k].id # LastArg' =>
            \E j \in 1..Len(DeclaredNodes(code')) :
              DeclaredNodes(code')[j] = DeclaredNodes(code)[k] ]_vars

\* C9: deleteEdge with a line index in the range of the buffer removes
\* exactly that line, appends one snapshot to the history and clears the
\* selected edge; with an index out of range it changes nothing.
C9_DeleteEdgeFrame ==
  [][ LastOp' = "deleteEdge" =>
        LET i == LastArg'.lineIndex
            old == Lines(code)
            new == Lines(code')
            appended == Append(SubSeq(history, 1, historyIndex + 1), code')
        IN  IF i >= 0 /\ i < Len(old)
            THEN /\ IF Len(old) = 1 THEN code' = <<>>
                    ELSE /\ Len(new) = Len(old) - 1
                         /\ \A j \in 1..Len(new) :
                              new[j] = IF j <= i THEN old[j] ELSE old[j + 1]
                 /\ history' = IF Len(appended) > MAX_HISTORY
                               THEN Tail(appended) ELSE appended
                 /\ historyIndex' = Len(history') - 1
                 /\ selectedEdge' = Null
                 /\ UNCHANGED <<selectedNode, selectedSubgraph>>
            ELSE UNCHANGED <<code, history, historyIndex, selectedNode,
                             selectedEdge, selectedSubgraph>> ]_vars

\* the selected edge is deleted: its line is gone and nothing is selected
C9_Witness ==
  /\ Op(0) = "deleteEdge" /\ Op(1) = "setSelectedEdge"
  /\ Arg(1) # Null
  /\ Arg(0).lineIndex = 1
  /\ selectedEdge = Null
  /\ Len(history) = 2
  /\ Len(Lines(code)) = Len(Lines(DEFAULT_CODE)) - 1
  /\ Lines(code)[2] = Lines(DEFAULT_CODE)[3]

\* the label getNodesWithLabels reports for id, <<"none">> if it reports none
LabelOf(text, id) ==
  LET nodes == extractNodesWithLabels(text)
      hits == {k \in 1..Len(nodes) : nodes[k].id = id}
  IN  IF hits = {} THEN <<"none">> ELSE nodes[Min(hits)].label

IsDeclared(text, id) ==
  \E k \in 1..Len(DeclaredNodes(text)) : DeclaredNodes(text)[k].id = id

\* C10: updateNodeLabel(id, newLabel) for a declared id makes
\* getNodesWithLabels report id with newLabel, keeps the label of every
\* other node, and changes no line but the one that declares id.
C10_LabelRoundTrip ==
  [][ (LastOp' = "updateNodeLabel" /\ IsDeclared(code, LastArg'.nodeId)) =>
        LET nodes == extractNodesWithLabels(code)
            old == Lines(code)
            new == Lines(code')
        IN  /\ LabelOf(code', LastArg'.nodeId) = LastArg'.newLabel
            /\ \A k \in 1..Len(nodes) :
                 nodes[k].id # LastArg'.nodeId =>
                   LabelOf(code', nodes[k].id) = nodes[k].label
            /\ Len(new) = Len(old)
            /\ Cardinality({j \in 1..Len(old) : new[j] # old[j]}) <= 1 ]_vars

\* the declaration the scanner of node labels finds for id: <<>> if none
DeclarationOf(text, id) ==
  SelectSeq(DeclaredNodes(text), LAMBDA n : n.id = id)

\* the number of lines of new that differ from the line of old at the same
\* index
ChangedLines(old, new) ==
  Cardinality({j \in 1..Len(old) : j > Len(new) \/ new[j] # old[j]})

\* C11: updateNodeShape(id, shape) for a declared id replaces the brackets of
\* the declaration of id with the pair of shape and keeps its label; the
\* declarations of the other nodes and all other lines are unchanged.
C11_ShapeKeepsLabel ==
  [][ (LastOp' = "updateNodeShape" /\ IsDeclared(code, LastArg'.nodeId)) =>
        /\ DeclarationOf(code', LastArg'.nodeId) =
             << [id |-> LastArg'.nodeId,
                 label |-> DeclarationOf(code, LastArg'.nodeId)[1].label,
                 openBracket |-> shapeWrappers(LastArg'.shape)[1]] >>
        /\ \A k \in 1..Len(DeclaredNodes(code)) :
             DeclaredNodes(code)[k].id # LastArg'.nodeId =>
               DeclarationOf(code', DeclaredNodes(code)[k].id) =
                 << DeclaredNodes(code)[k] >>
        /\ Len(Lines(code')) = Len(Lines(code))
        /\ ChangedLines(Lines(code), Lines(code')) <= 1 ]_vars

\* the line with 0-based index i of text, <<>> if there is none
LineAt(text, i) ==
  IF i >= 0 /\ i < Len(Lines(text)) THEN Lines(text)[i + 1] ELSE <<>>

\* line with the span of the match m replaced by span
WithSpan(line, m, span) ==
  SubSeq(line, 1, m.index - 1) \o span \o Tail2(line, m.next)

\* the match of the edge pattern on the line with index i of the buffer
EdgeOn(i) == matchArrowPattern(LineAt(code, i))

\* what the claim expects of an edit of the edge on line i, where span is
\* the text expected in place of the match of the edge pattern
EdgeEditExpected(i, span) ==
  IF EdgeOn(i).ok
  THEN /\ Len(Lines(code')) = Len(Lines(code))
       /\ \A j \in 1..Len(Lines(code)) :
            Lines(code')[j] =
              IF j = i + 1 THEN WithSpan(Lines(code)[j], EdgeOn(i), span)
              ELSE Lines(code)[j]
  ELSE code' = code

\* C12: updateEdgeLabel and updateEdgeArrowType change only the label,
\* respectively the arrow, of the edge on the line edge.lineIndex: every
\* character of the line before and after the matched edge and every other
\* line is kept; a line that does not match the edge pattern leaves the
\* buffer unchanged.
C12_EdgeEditFrame ==
  [][ /\ LastOp' = "updateEdgeLabel" =>
           EdgeEditExpected(LastArg'.edge.lineIndex,
                            relabelLine(EdgeOn(LastArg'.edge.lineIndex),
                                        LastArg'.newLabel))
      /\ LastOp' = "updateEdgeArrowType" =>
           EdgeEditExpected(LastArg'.edge.lineIndex,
                            rearrowLine(EdgeOn(LastArg'.edge.lineIndex),
                                        LastArg'.arrowType)) ]_vars

\* a single letter, or a letter with a number from 1 to 99, is free: the
\* letter is the first character of no id of the list, in either case, or
\* the combination is not in the list
FreeAmong(ids, first) ==
  \/ \E i \in 1..26 : UpperSeq[i] \notin first /\ LowerSeq[i] \notin first
  \/ \E i \in 1..26, j \in 1..99 : <<UpperSeq[i]>> \o Num(j) \notin ids

HasFreeId(ids) ==
  FreeAmong(Range(ids), {ids[k][1] : k \in {j \in 1..Len(ids) : ids[j] # <<>>}})

EdgeOf(m) == [from |-> m.from, arrowType |-> m.arrowType, label |-> m.label, to |-> m.to]

EdgesIn(text) ==
  UNION { { EdgeOf(DupEdgeAt(Lines(text)[i], p)) :
              p \in {q \in 1..Len(Lines(text)[i]) :
                       /\ WordBoundary(Lines(text)[i], q)
                       /\ DupEdgeAt(Lines(text)[i], q).ok} } :
          i \in 1..Len(Lines(text)) }

\* old is new with lines left out
RECURSIVE IsSubsequence(_, _)
IsSubsequence(old, new) ==
  IF old = <<>> THEN TRUE
  ELSE IF new = <<>> THEN FALSE
  ELSE IF old[1] = new[1] THEN IsSubsequence(Tail(old), Tail(new))
  ELSE IsSubsequence(old, Tail(new))

\* C13: duplicateNode(id) for a declared id returns a new id n; every edge
\* s -> id of the buffer has an edge s -> n with the same arrow and label in
\* the result, every edge id -> t has an edge n -> t, n is declared with the
\* brackets and label of id, a bare declaration of n is written when id has
\* no incoming edge, and every line of the buffer is kept in its order; also
\* when the edges of id are on lines that chain arrows.
C13_DuplicationPreservesTopology ==
  [][ (LastOp' = "duplicateNode" /\ IsDeclared(code, LastArg'.nodeId)) =>
        /\ LastArg'.result # Null
        /\ \A e \in EdgesIn(code) :
             /\ e.to = LastArg'.nodeId =>
                  [e EXCEPT !.to = ValueOf(LastArg'.result)] \in EdgesIn(code')
             /\ e.from = LastArg'.nodeId =>
                  [e EXCEPT !.from = ValueOf(LastArg'.result)] \in EdgesIn(code')
        /\ DeclarationOf(code', ValueOf(LastArg'.result)) =
             << [DeclarationOf(code, LastArg'.nodeId)[1]
                   EXCEPT !.id = ValueOf(LastArg'.result)] >>
        /\ IsSubsequence(Lines(code), Lines(code')) ]_vars

\* the subgraphs of text that have id among their nodes
GroupsOf(text, id) ==
  SelectSeq(parseSubgraphsText(text), LAMBDA sg : id \in Range(sg.nodes))

\* some line of text includes id
Occurs(text, id) == \E j \in 1..Len(Lines(text)) : includes(Lines(text)[j], id)

\* new is old with line inserted as the line with 0-based index k, and with
\* the lines extra appended
InsertedAt(old, new, k, line, extra) ==
  /\ k >= 0
  /\ k <= Len(old)
  /\ new = splice(old, k, 0, <<line>>) \o extra

\* the 0-based index of the line of new that is not in old at the same index
InsertionPoint(old, new) ==
  Min({k \in 0..Len(old) : k = Len(old) \/ new[k + 1] # old[k + 1]})

\* the style line the claim expects for newId: a copy of the directive of
\* anchor, if it has one
ExpectedStyle(text, anchor, newId) ==
  IF \E j \in 1..Len(Lines(text)) : IsStyleLineOf(Lines(text)[j], anchor)
  THEN << <<" ", " ", " ", " ", "s", "t", "y", "l", "e", " ">> \o newId \o <<" ">> \o styleMatch(text, anchor) >>
  ELSE <<>>

\* the line with 0-based index k follows the last line that includes anchor
\* among those with index lo <= i < hi; k = hi if none of them does
AfterLastOccurrence(lines, lo, hi, k, anchor) ==
  IF \E i \in lo..(hi - 1) : includes(lines[i + 1], anchor)
  THEN /\ k - 1 \in lo..(hi - 1)
       /\ includes(lines[k], anchor)
       /\ \A i \in k..(hi - 1) : ~includes(lines[i + 1], anchor)
  ELSE k = hi

\* what C15 says of the lines: one inserted edge line, a copied style line
\* at the end, and the place of the inserted line
InsertNodeLines(anchor, newId, label, shape) ==
  /\ InsertedAt(Lines(code), Lines(code'),
                InsertionPoint(Lines(code), Lines(code')),
                <<" ", " ", " ", " ">> \o anchor \o <<" ", "-", "-", ">", " ">> \o newId
                  \o shapeWrappers(shape)[1] \o label \o shapeWrappers(shape)[2],
                ExpectedStyle(code, anchor, newId))
  /\ IF GroupsOf(code, anchor) = <<>>
     THEN AfterLastOccurrence(Lines(code), 0, Len(Lines(code)),
                              InsertionPoint(Lines(code), Lines(code')), anchor)
     ELSE AfterLastOccurrence(Lines(code), GroupsOf(code, anchor)[1].lineStart + 1,
                              GroupsOf(code, anchor)[1].lineEnd,
                              InsertionPoint(Lines(code), Lines(code')), anchor)

StyleLinesOf(lines, id) ==
  {j \in 1..Len(lines) : IsStyleLineOf(lines[j], id)}

\* the style line carries the value for every key of style
Carries(props, style) ==
  \A k \in DOMAIN style : k \in DOMAIN props /\ props[k] = style[k]

\* the style line new carries the change and, for every other key, the
\* value the style line old carries
MergedInto(old, new, id, change) ==
  \A oldProps \in {parseStyleOf(old, id)}, newProps \in {parseStyleOf(new, id)} :
    /\ Carries(newProps, change)
    /\ Carries(newProps, [k \in DOMAIN oldProps \ DOMAIN change |-> oldProps[k]])

\* what C16 says of a style update of id by change that makes the lines
\* new of the lines old
UpsertedLines(old, new, id, change) ==
  /\ Cardinality(StyleLinesOf(new, id)) = 1
  /\ IF StyleLinesOf(old, id) = {}
     THEN /\ new = Append(old, new[Len(new)])
          /\ MergedInto(<<>>, new[Len(new)], id, change)
     ELSE /\ Len(new) = Len(old)
          /\ StyleLinesOf(new, id) = StyleLinesOf(old, id)
          /\ \A j \in 1..Len(old) :
               IF j \in StyleLinesOf(old, id)
               THEN MergedInto(old[j], new[j], id, change)
               ELSE new[j] = old[j]

StyleUpserted(id, change) ==
  \A old \in {Lines(code)}, new \in {Lines(code')} :
    UpsertedLines(old, new, id, change)

\* C16: on a buffer that at first has no style line of id, the first style
\* update of id appends one line `style <id> ...` and every later update
\* rewrites that line in place with the merged properties: after every
\* update the buffer has exactly one style line of id and no other line has
\* changed.
C16_StyleUpsert ==
  [][ /\ LastOp' = "updateSubgraphStyle" =>
           StyleUpserted(LastArg'.subgraphId, LastArg'.style)
      /\ (LastOp' = "handleStyleChange" /\ selectedNode # Null) =>
           StyleUpserted(ValueOf(selectedNode), LastArg'.key :> LastArg'.value)
    ]_vars

\* three updates of the style of G, the last two on the line the first one
\* appended, which now carries the three changes
C16_Witness ==
  /\ Len(trail) = 3
  /\ \A n \in 1..3 : trail[n].op = "updateSubgraphStyle" /\ trail[n].arg.subgraphId = <<"G">>
  /\ Lines(code)[Len(Lines(code))] =
       <<" ", " ", " ", " ", "s", "t", "y", "l", "e", " ", "G", " ", "f", "i", "l", "l", ":", "#", "f", "f", "f", ",", "s", "t", "r", "o", "k", "e", ":", "#", "0", "0", "0", ",", "s", "t", "r", "o", "k", "e", "-", "w", "i", "d", "t", "h", ":", "3", "p", "x", ",", "c", "o", "l", "o", "r", ":", "#", "3", "3", "3", "3", "3", "3">>
  /\ Len(Lines(code)) = Len(Lines(DEFAULT_CODE)) + 1

\* line is the member line of nodeId: the id alone, or the id with a
\* bracketed definition that a line of old holds
IsMemberLine(old, line, nodeId) ==
  \/ trim(line) = nodeId
  \/ /\ startsWith(trim(line), nodeId)
     /\ Len(trim(line)) > Len(nodeId)
     /\ trim(line)[Len(nodeId) + 1] \in PatOpen
     /\ \E j \in 1..Len(old) : includes(old[j], trim(line))

\* block is the block of the subgraph id with a member line for each of
\* nodeIds, in their order
IsSubgraphBlock(old, block, id, nodeIds) ==
  /\ Len(block) = Len(nodeIds) + 2
  /\ SubgraphMatch(trim(block[1])).ok
  /\ SubgraphMatch(trim(block[1])).id = id
  /\ trim(block[Len(block)]) = <<"e", "n", "d">>
  /\ \A n \in 1..Len(nodeIds) : IsMemberLine(old, block[n + 1], nodeIds[n])

\* new is old with a block of the subgraph id inserted after the last line
\* that is not blank, and the subgraphs found in new hold id with nodeIds
SubgraphInserted(old, new, subgraphs, id, nodeIds) ==
  /\ Len(new) = Len(old) + Len(nodeIds) + 2
  /\ new = splice(old, AfterLastNonBlank(old), 0,
                  SubSeq(new, AfterLastNonBlank(old) + 1,
                         AfterLastNonBlank(old) + Len(nodeIds) + 2))
  /\ IsSubgraphBlock(old,
                     SubSeq(new, AfterLastNonBlank(old) + 1,
                            AfterLastNonBlank(old) + Len(nodeIds) + 2),
                     id, nodeIds)
  /\ \E k \in 1..Len(subgraphs) :
       /\ subgraphs[k].id = id
       /\ subgraphs[k].lineStart = AfterLastNonBlank(old)
       /\ subgraphs[k].nodes = nodeIds

\* C17: insertSubgraph(id, title, nodeIds) with pairwise distinct ids
\* appends, after the last line that is not blank, a block of
\* Len(nodeIds) + 2 lines: the line that opens the group, a member line for
\* each id in the order of the list, and the line that closes it;
\* parseSubgraphs then reports id with nodes = nodeIds, also when an id of
\* the list is part of another; no line of the buffer is removed or changed.
C17_InsertSubgraphBlock ==
  [][ LastOp' = "insertSubgraph" =>
        \A old \in {Lines(code)}, new \in {Lines(code')},
           subgraphs \in {parseSubgraphsText(code')} :
          SubgraphInserted(old, new, subgraphs, LastArg'.id, LastArg'.nodeIds)
    ]_vars

\* line without one indentation unit: without its first four characters if
\* they are spaces
Unindented(line) == IF startsWith(line, <<" ", " ", " ", " ">>) THEN Tail2(line, 5) ELSE line

\* the ids of the subgraphs
GroupIds(subgraphs) == {subgraphs[k].id : k \in 1..Len(subgraphs)}

\* new is old without the first and the last line of the subgraph sg, the
\* lines between them unindented
SubgraphUnwrapped(old, new, sg) ==
  /\ Len(new) = Len(old) - 2
  /\ \A j \in 1..Len(new) :
       new[j] = IF j <= sg.lineStart THEN old[j]
                ELSE IF j < sg.lineEnd THEN Unindented(old[j + 1])
                ELSE old[j + 2]

\* C18: deleteSubgraph(id) of a terminated group removes the line that
\* opens it and the line that closes it, keeps the lines between them in
\* place without one indentation unit (4 spaces), keeps the lines outside
\* of the span, leaves no group id in parseSubgraphs and every other group,
\* nested ones too; the selection of a group is cleared.
C18_DeleteSubgraphUnwraps ==
  [][ (LastOp' = "deleteSubgraph" /\ LastArg' \in GroupIds(parseSubgraphsText(code))) =>
        \A old \in {Lines(code)}, new \in {Lines(code')},
           before \in {parseSubgraphsText(code)},
           after \in {parseSubgraphsText(code')} :
          /\ SubgraphUnwrapped(old, new, before[FindSubgraph(before, LastArg')])
          /\ GroupIds(after) = GroupIds(before) \ {LastArg'}
          /\ selectedSubgraph' = Null
    ]_vars

\* line declares id and nothing else: it starts with id, ends with a
\* closing bracket and declares one node
IsDeclarationLine(line, id) ==
  /\ IsDeclared(line, id)
  /\ Len(DeclaredNodes(line)) = 1
  /\ startsWith(trim(line), id)
  /\ trim(line)[Len(trim(line))] \in PatClose

\* the indexes of the lines of old outside of the span of sg that declare
\* id; alone on the line if standalone
DeclarationsOutside(old, sg, id, standalone) ==
  {j \in 1..Len(old) :
     /\ ~(j - 1 > sg.lineStart /\ j - 1 < sg.lineEnd)
     /\ IF standalone THEN IsDeclarationLine(old[j], id) ELSE IsDeclared(old[j], id)}

\* new is old with line j moved into the span of the group sg of new, and
\* one line of new declares id
Relocated(old, new, sg, j, id) ==
  /\ Len(new) = Len(old)
  /\ \E k \in (sg.lineStart + 1)..(sg.lineEnd - 1) :
       /\ trim(new[k + 1]) = trim(old[j])
       /\ new = splice(splice(old, j - 1, 1, <<>>), k, 0, <<new[k + 1]>>)
  /\ Cardinality({i \in 1..Len(new) : IsDeclared(new[i], id)}) = 1

\* new is old with a line that consists of id inserted before the line that
\* ends the group sg of old
ReferenceInserted(old, new, sg, id) ==
  /\ Len(new) = Len(old) + 1
  /\ trim(new[sg.lineEnd + 1]) = id
  /\ new = splice(old, sg.lineEnd, 0, <<new[sg.lineEnd + 1]>>)

\* the line moved if one line outside of the group declares id, a reference
\* line if not
RelocatedOrReferenced(old, new, sg, sgNew, decls, id) ==
  IF Cardinality(decls) = 1
  THEN \E j \in decls : Relocated(old, new, sgNew, j, id)
  ELSE ReferenceInserted(old, new, sg, id)

NodeAdded(old, new, before, after, subgraphId, id) ==
  /\ FindSubgraph(after, subgraphId) # 0
  /\ id \in Range(after[FindSubgraph(after, subgraphId)].nodes)
  /\ \E standalone \in BOOLEAN :
       RelocatedOrReferenced(old, new, before[FindSubgraph(before, subgraphId)],
                             after[FindSubgraph(after, subgraphId)],
                             DeclarationsOutside(old,
                               before[FindSubgraph(before, subgraphId)], id,
                               standalone),
                             id)

\* C19: addNodeToSubgraph(group, node) of a group of the buffer: when one
\* line outside of the group declares node (read as a line that holds the
\* declaration or as a line that holds nothing else), that line is moved
\* into the span of the group, the number of lines is unchanged and node is
\* declared on one line; in every other case a line that consists of the
\* node id is inserted before the line that ends the group; afterwards
\* parseSubgraphs lists node as a member of group.
C19_AddNodeRelocates ==
  [][ (LastOp' = "addNodeToSubgraph"
       /\ LastArg'.subgraphId \in GroupIds(parseSubgraphsText(code))) =>
        \A old \in {Lines(code)}, new \in {Lines(code')},
           before \in {parseSubgraphsText(code)},
           after \in {parseSubgraphsText(code')} :
          NodeAdded(old, new, before, after, LastArg'.subgraphId, LastArg'.nodeId)
    ]_vars

\* line starts with id: it consists of id or goes on with a bracket
StartsWithNode(line, id) ==
  \/ trim(line) = id
  \/ /\ startsWith(trim(line), id)
     /\ Len(trim(line)) > Len(id)
     /\ trim(line)[Len(id) + 1] \in PatOpen

\* the 0-based indexes of the lines of the span of sg that start with id
LinesOfNode(old, sg, id) ==
  {j \in (sg.lineStart + 1)..(sg.lineEnd - 1) : StartsWithNode(old[j + 1], id)}

\* new is old with the line with 0-based index j taken out of the span of
\* sg and put after the line that ends sg, which is the line with index
\* sg.lineEnd - 1 once line j is removed
MovedOut(old, new, sg, j) ==
  /\ Len(new) = Len(old)
  /\ trim(new[sg.lineEnd + 1]) = trim(old[j + 1])
  /\ new = splice(splice(old, j, 1, <<>>), sg.lineEnd, 0, <<new[sg.lineEnd + 1]>>)

\* g encloses sg
Encloses(g, sg) == g.lineStart < sg.lineStart /\ g.lineEnd > sg.lineEnd

\* id is a member of no group of after but of groups whose id is the id of
\* a group of before that encloses sg
OnlyInEnclosing(before, after, sg, id) ==
  \A k \in 1..Len(after) :
    id \in Range(after[k].nodes) =>
      \E e \in 1..Len(before) :
        before[e].id = after[k].id /\ Encloses(before[e], sg)

NodeRemoved(old, new, before, after, sg, id) ==
  /\ \E j \in LinesOfNode(old, sg, id) : MovedOut(old, new, sg, j)
  /\ OnlyInEnclosing(before, after, sg, id)

\* C20: removeNodeFromSubgraph(group, node) of a group whose span holds a
\* line that starts with node removes that line from the span and inserts
\* it directly after the line that ends the group, so that node is a member
\* neither of group nor of a group that did not enclose group, and the
\* number of lines is unchanged.
C20_RemoveNodeMovesOut ==
  [][ (LastOp' = "removeNodeFromSubgraph"
       /\ LastArg'.subgraphId \in GroupIds(parseSubgraphsText(code))) =>
        \A old \in {Lines(code)}, new \in {Lines(code')},
           before \in {parseSubgraphsText(code)},
           after \in {parseSubgraphsText(code')} :
          LinesOfNode(old, before[FindSubgraph(before, LastArg'.subgraphId)],
                      LastArg'.nodeId) # {} =>
            NodeRemoved(old, new, before, after,
                        before[FindSubgraph(before, LastArg'.subgraphId)],
                        LastArg'.nodeId)
    ]_vars
(***************************************************************************)
(* Persistence, no-ops, the scan of the groups, fresh ids, the frame of    *)
(* deleteNode, undo and redo, the arrow types.                             *)
(***************************************************************************)
NoSelection ==
  selectedNode = Null /\ selectedEdge = Null /\ selectedSubgraph = Null

\* C21: only the text and the node styles are persisted and the history is
\* rebuilt from the persisted text: after a restart with the persisted text
\* T the history is the single snapshot T with historyIndex 0 and nothing
\* is selected, and one edit followed by one undo returns the text to T.
C21_RestartRebuildsHistory ==
  /\ Op(0) = "restart" =>
       /\ code = Arg(0).code
       /\ nodeStyles = Arg(0).nodeStyles
       /\ history = <<Arg(0).code>>
       /\ historyIndex = 0
       /\ NoSelection
  /\ (Op(2) = "restart" /\ Op(1) = "setCode" /\ Op(0) = "undo") =>
       code = Arg(2).code

\* the text of the call of renderMermaid made in this step, if one is made
RenderStarts == Len(inFlight') > Len(inFlight)

StartedText == inFlight'[Len(inFlight')]

\* C22: the debounce is cancellable delayed work: each change of the text
\* schedules one render of the new text and cancels the pending one, at most
\* one render is pending, and a render that starts is a render of the
\* latest text.
C22_DebounceCancellable ==
  [][ /\ code' # code => debounce' = Some(code')
      /\ Cardinality(debounce') <= 1
      /\ RenderStarts => StartedText = code
    ]_vars

\* C23: a failure of the renderer is stored as the error and a later
\* successful render clears it: from a state in which the error is set and
\* the text is one the renderer accepts, the error becomes null again
\* (unless the text changes to one the renderer rejects).
C23_ErrorCleared ==
  (error # Null /\ renderMermaid(code).ok)
    ~> (error = Null \/ ~renderMermaid(code).ok)

\* the last call of the renderer returns; it was made for the text of the
\* store and no timer is pending
LatestReturns ==
  /\ LastOp' = "rendered"
  /\ LastArg' = code
  /\ inFlight' = <<>>
  /\ debounce = Null

\* C30: results are not applied out of order: when the render of the latest
\* text has returned and nothing is pending, the markup and the error are
\* those of the latest text, whatever renders were in flight before.
C30_ResultsInOrder ==
  [][ LatestReturns =>
        IF renderMermaid(code).ok
        THEN error' = Null /\ innerHTML' = Some(code)
        ELSE error' # Null
    ]_vars

\* the line of edge is missing, is empty or holds no arrow
NoEdgeLine(lines, edge) ==
  ~HasLine(lines, edge.lineIndex)
    \/ ~matchArrowPattern(lines[edge.lineIndex + 1]).ok

\* the operation of this step was called with a target the text does not
\* hold
TargetMissing ==
  \/ /\ LastOp' = "insertNode"
     /\ ~includes(code, LastArg'.afterNodeId)
  \/ /\ LastOp' \in {"updateNodeLabel", "updateNodeShape", "duplicateNode"}
     /\ LastArg'.nodeId \notin Range(extractNodeIds(code))
  \/ /\ LastOp' \in {"updateEdgeLabel", "updateEdgeArrowType"}
     /\ NoEdgeLine(Lines(code), LastArg'.edge)
  \/ /\ LastOp' \in {"updateSubgraphTitle", "addNodeToSubgraph",
                     "removeNodeFromSubgraph"}
     /\ LastArg'.subgraphId \notin GroupIds(parseSubgraphsText(code))
  \/ /\ LastOp' = "deleteSubgraph"
     /\ LastArg' \notin GroupIds(parseSubgraphsText(code))

\* C24: an operation that cannot find its target leaves the text of the
\* buffer exactly unchanged, and duplicateNode returns null.
C24_NoOpsKeepBuffer ==
  [][ TargetMissing =>
        /\ code' = code
        /\ LastOp' = "duplicateNode" => LastArg'.result = Null
    ]_vars

IsOpenLine(line) == SubgraphMatch(trim(line)).ok

IsEndLine(line) == ~IsOpenLine(line) /\ trim(line) = <<"e", "n", "d">>

\* the number of subgraphs open after a line, given the number before it:
\* an end line met with no subgraph open is skipped
OpenAfterLine(line, before) ==
  IF IsOpenLine(line) THEN before + 1
  ELSE IF IsEndLine(line) /\ before > 0 THEN before - 1
  ELSE before

\* the number of subgraphs open after the first k lines
RECURSIVE OpenAfter(_, _)
OpenAfter(lines, k) ==
  IF k = 0 THEN 0
  ELSE CHOOSE d \in {OpenAfterLine(lines[k], before) :
                       before \in {OpenAfter(lines, k - 1)}} : TRUE

\* the line with the 0-based index j ends the subgraph that the line with
\* the 0-based index i opens; d[k] is the number of subgraphs open after
\* the first k lines
EndOf(lines, d, i, j) ==
  /\ i < j
  /\ IsOpenLine(lines[i + 1])
  /\ IsEndLine(lines[j + 1])
  /\ d[j + 1] = d[i]
  /\ \A k \in (i + 1)..(j - 1) : d[k + 1] > d[i]

Spans(lines, d) ==
  {span \in (0..(Len(lines) - 1)) \X (0..(Len(lines) - 1)) :
     EndOf(lines, d, span[1], span[2])}

\* the subgraphs reported are those whose open line has its end line, each
\* with the id of its open line
ReportedWhenEnded(lines, sgs) ==
  /\ {<<sgs[n].lineStart, sgs[n].lineEnd>> : n \in 1..Len(sgs)}
       = Spans(lines, [k \in 0..Len(lines) |-> OpenAfter(lines, k)])
  /\ \A n, m \in 1..Len(sgs) :
       (sgs[n].lineStart = sgs[m].lineStart) => n = m
  /\ \A n \in 1..Len(sgs) :
       sgs[n].id = SubgraphMatch(trim(lines[sgs[n].lineStart + 1])).id

Disjoint(a, b) == a.lineEnd < b.lineStart \/ b.lineEnd < a.lineStart

\* b is strictly inside a
Nested(a, b) == a.lineStart < b.lineStart /\ b.lineEnd < a.lineEnd

WellNested(sgs) ==
  /\ \A n \in 1..Len(sgs) : sgs[n].lineStart < sgs[n].lineEnd
  /\ \A n, m \in 1..Len(sgs) :
       n # m => \/ Disjoint(sgs[n], sgs[m])
                \/ Nested(sgs[n], sgs[m])
                \/ Nested(sgs[m], sgs[n])

\* the subgraphs reported whose span holds the line with the 0-based index k
Enclosing(sgs, k) ==
  {n \in 1..Len(sgs) : sgs[n].lineStart < k /\ k < sgs[n].lineEnd}

\* the innermost of the subgraphs of the non-empty set ns
Innermost(sgs, ns) ==
  CHOOSE n \in ns : \A m \in ns : sgs[m].lineStart <= sgs[n].lineStart

\* a line that holds an identifier alone, which is no reserved word
IsIdentifierLine(line) == IsStandalone(trim(line)) /\ ~IsKeyword(trim(line))

\* the id of the identifier line k is a member of the innermost subgraph
\* around it; it is a member of another subgraph around it only if another
\* line, whose innermost subgraph that one is, holds the id
MemberOfInnermost(lines, sgs, k) ==
  \A ns \in {Enclosing(sgs, k)} :
    ns # {} =>
      /\ trim(lines[k + 1]) \in Range(sgs[Innermost(sgs, ns)].nodes)
      /\ \A n \in ns \ {Innermost(sgs, ns)} :
           trim(lines[k + 1]) \in Range(sgs[n].nodes) =>
             \E k2 \in 0..(Len(lines) - 1) :
               /\ k2 # k
               /\ Enclosing(sgs, k2) # {}
               /\ Innermost(sgs, Enclosing(sgs, k2)) = n
               /\ includes(lines[k2 + 1], trim(lines[k + 1]))

IdentifierLines(lines) ==
  {k \in 0..(Len(lines) - 1) : IsIdentifierLine(lines[k + 1])}

StackScan(lines, sgs) ==
  /\ ReportedWhenEnded(lines, sgs)
  /\ WellNested(sgs)
  /\ \A k \in IdentifierLines(lines) : MemberOfInnermost(lines, sgs, k)

\* C25: parseSubgraphs reports a subgraph exactly when its open line is
\* matched by a later end line; subgraphs without an end and end lines with
\* nothing open yield nothing; lineStart < lineEnd; two spans are disjoint
\* or strictly nested; the id of an identifier line is a member of the
\* innermost subgraph around the line only.
C25_SubgraphStackScan ==
  \A lines \in {Lines(code)}, sgs \in {parseSubgraphsText(code)} :
    StackScan(lines, sgs)

\* an identifier line inside a subgraph nested in another, both reported
C25_Witness ==
  \E lines \in {Lines(code)}, sgs \in {parseSubgraphsText(code)} :
    /\ \E k \in IdentifierLines(lines) : Cardinality(Enclosing(sgs, k)) = 2
    /\ StackScan(lines, sgs)

\* the index of the last character before index p that is no white space
LastBefore(line, p) == Max({0} \cup {e \in 1..(p - 1) : line[e] \notin Space})

\* the run of word characters that ends at index e
WordEndingAt(line, e) ==
  IF e = 0 \/ line[e] \notin WordChar THEN <<>>
  ELSE SubSeq(line, Min({a \in 1..e : \A k \in a..e : line[k] \in WordChar}), e)

\* the run of word characters that starts at index f
WordStartingAt(line, f) == SubSeq(line, f, RunEnd(line, f, WordChar) - 1)

\* the words on both sides of the arrows of ArrowType written on line
Endpoints(line) ==
  UNION {{WordEndingAt(line, LastBefore(line, p)),
          WordStartingAt(line, RunEnd(line, p + Len(arrow), Space))} :
           <<p, arrow>> \in {pa \in (1..Len(line)) \X ArrowType :
                               StartsWithAt(line, pa[1], pa[2])}}

\* the ids of the nodes of text: the nodes declared with a bracket and the
\* ends of the edges, whichever arrow they are written with
NodeIdsOf(text) ==
  {id \in {DeclaredNodes(text)[k].id : k \in 1..Len(DeclaredNodes(text))}
          \cup UNION {Endpoints(Lines(text)[i]) : i \in 1..Len(Lines(text))} :
     IsNodeId(id)}

\* C26: the id that getNextNodeId computes for add-node and duplicateNode
\* is different from every node id of the buffer, whichever arrow the edges
\* are written with.
C26_NextIdFresh ==
  [][ (LastOp' \in {"handleAddNode", "duplicateNode"}
       /\ LastArg'.result # Null) =>
        ValueOf(LastArg'.result) \notin NodeIdsOf(code)
    ]_vars

\* line holds id as a whole token: no word character before it or after it
HoldsToken(line, id) ==
  \E i \in 1..(Len(line) - Len(id) + 1) :
    /\ SubSeq(line, i, i + Len(id) - 1) = id
    /\ i = 1 \/ line[i - 1] \notin WordChar
    /\ i + Len(id) > Len(line) \/ line[i + Len(id)] \notin WordChar

\* core from its line j follows old from its line i: a line of old that
\* does not hold the token id is the next line of core; a line that holds
\* it is left out of core or has one line of core in its place
RECURSIVE FollowsFrom(_, _, _, _, _)
FollowsFrom(old, core, i, j, id) ==
  IF i > Len(old) THEN j > Len(core)
  ELSE IF ~HoldsToken(old[i], id)
  THEN /\ j <= Len(core)
       /\ core[j] = old[i]
       /\ FollowsFrom(old, core, i + 1, j + 1, id)
  ELSE \/ FollowsFrom(old, core, i + 1, j, id)
       \/ j <= Len(core) /\ FollowsFrom(old, core, i + 1, j + 1, id)

\* line is the declaration of a node other than id, taken from a line of
\* old that holds the token id, after four spaces
IsOrphanLine(line, old, id) ==
  /\ startsWith(line, <<" ", " ", " ", " ">>)
  /\ Len(line) > 4
  /\ ~startsWith(Tail2(line, 5), id)
  /\ \E i \in 1..Len(old) :
       HoldsToken(old[i], id) /\ includes(old[i], Tail2(line, 5))

\* new without the n lines after its line h
WithoutBlock(new, h, n) == SubSeq(new, 1, h) \o SubSeq(new, h + n + 1, Len(new))

\* new is old with lines that hold the token id removed or rewritten and
\* with n orphan declarations added directly after the header line h
FrameWith(old, new, id, h, n) ==
  /\ \A k \in 1..n : IsOrphanLine(new[h + k], old, id)
  /\ FollowsFrom(old, WithoutBlock(new, h, n), 1, 1, id)

FirstHeader(new) ==
  Min({k \in 1..Len(new) : IsHeaderLine(new[k])} \cup {Len(new) + 1})

DeleteFrame(old, new, id) ==
  \E n \in 0..Len(new) :
    /\ FirstHeader(new) + n <= Len(new)
    /\ FrameWith(old, new, id, FirstHeader(new), n)

\* C27: deleteNode(id) keeps every line that does not hold id as a whole
\* token, unchanged and in the same order; the lines removed or rewritten
\* hold id; the lines added are orphan declarations directly after the
\* header.
C27_DeleteNodeFrame ==
  [][ LastOp' = "deleteNode" =>
        \A old \in {Lines(code)}, new \in {Lines(code')} :
          DeleteFrame(old, new, LastArg')
    ]_vars

\* the text before the last operation pushed the current one
Previous == history[historyIndex]

\* deleteNode has removed a line, kept a line of an edge and added a line
C27_Witness ==
  /\ LastOp = "deleteNode"
  /\ historyIndex > 0
  /\ \E old \in {Lines(Previous)}, new \in {Lines(code)} :
       /\ DeleteFrame(old, new, LastArg)
       /\ \E i \in 2..Len(old) : old[i] \notin Range(new)
       /\ \E i \in 2..Len(old) :
            ~HoldsToken(old[i], LastArg) /\ old[i] \in Range(new)
       /\ \E k \in 1..Len(new) : new[k] \notin Range(old)

\* C28: undo and redo are inverse: undo called in a state in which canUndo
\* holds and followed at once by redo restores the text and historyIndex.
C28_UndoRedoInverse ==
  (Op(1) = "undo" /\ Op(0) = "redo" /\ Arg(1).historyIndex > 0) =>
    /\ code = Arg(1).code
    /\ historyIndex = Arg(1).historyIndex

\* the index after the label |...| that starts at index p, p if none does
AfterLabel(line, p) ==
  IF p <= Len(line) /\ line[p] = "|" /\ indexOf(line, <<"|">>, p + 1) # 0
  THEN indexOf(line, <<"|">>, p + 1) + 1
  ELSE p

\* line is the line of an edge written with arrow: an id, the arrow, a
\* label or none, an id
IsEdgeWith(line, arrow) ==
  \E p \in 1..Len(line) :
    /\ StartsWithAt(line, p, arrow)
    /\ WordEndingAt(line, LastBefore(line, p)) # <<>>
    /\ WordStartingAt(line, RunEnd(line, AfterLabel(line, p + Len(arrow)), Space))
         # <<>>

\* the line of edge in text, <<>> if there is none
EdgeLine(text, edge) ==
  IF HasLine(Lines(text), edge.lineIndex)
  THEN Lines(text)[edge.lineIndex + 1] ELSE <<>>

\* the last operation has set the arrow of the line of edge
ArrowJustSet(edge) ==
  /\ LastOp = "updateEdgeArrowType"
  /\ LastArg.edge = edge
  /\ IsEdgeWith(EdgeLine(code, edge), LastArg.arrowType)

\* C29: an edge stays editable whatever arrow is chosen: after
\* updateEdgeArrowType(edge, a) has written the arrow a on the line,
\* updateEdgeArrowType(edge, b) leaves the line with the arrow b and
\* updateEdgeLabel(edge, l) leaves it with the label l (with no label when l
\* is empty).
C29_EdgeStaysEditable ==
  [][ /\ (LastOp' = "updateEdgeArrowType" /\ ArrowJustSet(LastArg'.edge)) =>
           IsEdgeWith(EdgeLine(code', LastArg'.edge), LastArg'.arrowType)
      /\ (LastOp' = "updateEdgeLabel" /\ ArrowJustSet(LastArg'.edge)
          /\ LastArg'.newLabel # <<>>) =>
           includes(EdgeLine(code', LastArg'.edge),
                    <<"|">> \o LastArg'.newLabel \o <<"|">>)
      /\ (LastOp' = "updateEdgeLabel" /\ ArrowJustSet(LastArg'.edge)
          /\ LastArg'.newLabel = <<>>) =>
           ~includes(EdgeLine(code', LastArg'.edge), <<"|">>)
    ]_vars

\* the arrow of an edge has been set to ---> and then to ==>
C29_Witness ==
  /\ Op(1) = "updateEdgeArrowType"
  /\ Op(0) = "updateEdgeArrowType"
  /\ Arg(1).edge = Arg(0).edge
  /\ Arg(1).arrowType = <<"-", "-", "-", ">">>
  /\ Arg(0).arrowType = <<"=", "=", ">">>
  /\ IsEdgeWith(EdgeLine(code, Arg(0).edge), <<"=", "=", ">">>)

====
